---- MODULE Spec2Model ----
(***************************************************************************)
(* The particle grid engine of strata (src/src/sand/engine.rs and          *)
(* src/src/sand/resize.rs) together with the sand-state loader of          *)
(* src/src/storage.rs, as a state machine over the fields of SandEngine.   *)
(*                                                                         *)
(* A grid is a function from row index 0..h-1 to rows, a row a function    *)
(* from column index 0..w-1 to cells; a cell is None or a category id.     *)
(***************************************************************************)
EXTENDS Integers, Sequences, FiniteSets, TLC

\* ------------------------------------------------------------------------
\* Bounds of the model
\* ------------------------------------------------------------------------
\* new / resize are called with viewports of at most MaxCells character
\* cells (width * height), neither side longer than MaxCells
MaxCells == 1
\* spawn is offered while fewer than MaxGrains grains are in the grid
MaxGrains == 2
\* resize_grid is studied on grids of at most MaxPileW by MaxPileH
\* character cells and at most MaxPileCells character cells in all
MaxPileW == 4
MaxPileH == 3
MaxPileCells == 6
\* restore_state is studied on snapshots listing at most MaxSnapGrains grains,
\* restored into engines of viewports of at most MaxLive by MaxLive cells
MaxSnapGrains == 2
MaxLive == 2

\* kept_window is studied on axes of at most MaxLen sub-cells, the band sizes
\* on new grids of up to 40 * MaxBandSteps + 1 character cells a side
MaxLen == 6
MaxBandSteps == 7

\* a settling pass is followed grain by grain on the grids of a viewport of
\* FallViewport character cells holding at most MaxFallGrains grains
MaxFallGrains == 4
FallViewport == <<2, 1>>

\* new and the resize after it are studied on viewports of at most MaxFirst
\* character cells a side and at most MaxFirstCells character cells in all
MaxFirst == 5
MaxFirstCells == 2

\* settling is followed to its end on the heaps of at most MaxSettleGrains
\* grains of the viewport FallViewport
MaxSettleGrains == 3

\* the colours of render are studied on the grids of a viewport of
\* RenderViewport character cells holding at most MaxRenderGrains grains
MaxRenderGrains == 3
RenderViewport == <<1, 1>>

\* ------------------------------------------------------------------------
\* Program constants
\* ------------------------------------------------------------------------
dot_width == 2
dot_height == 4
braille_base == 10240
VERSION == 1

None == -1

Min(a, b) == IF a < b THEN a ELSE b
Max(a, b) == IF a > b THEN a ELSE b

\* ------------------------------------------------------------------------
\* Grids
\* ------------------------------------------------------------------------
\* vec![vec![None; w]; h]
EmptyGrid(w, h) == [y \in 0..(h - 1) |-> [x \in 0..(w - 1) |-> None]]

\* grid.len()
Rows(g) == Cardinality(DOMAIN g)

\* grid.first().map_or(0, |row| row.len())
Cols(g) == IF Rows(g) = 0 THEN 0 ELSE Cardinality(DOMAIN g[0])

\* the positions <<y, x>> of a w by h grid
Cells(g) == (0..(Rows(g) - 1)) \X (0..(Cols(g) - 1))

\* grid.iter().flat_map(|row| row.iter()).filter(|c| c.is_some()).count()
CountGrains(g) == Cardinality({p \in Cells(g) : g[p[1]][p[2]] /= None})

\* number of cells tagged k
CountTag(g, k) == Cardinality({p \in Cells(g) : g[p[1]][p[2]] = k})

\* the category ids present in the grid
TagsOf(g) == {g[p[1]][p[2]] : p \in {q \in Cells(g) : g[q[1]][q[2]] /= None}}

SetCell(g, y, x, v) == [g EXCEPT ![y][x] = v]

\* ------------------------------------------------------------------------
\* resize.rs
\* ------------------------------------------------------------------------
\* mutant: a shrunk axis keeps its leading cells
Mutant_kept_window_shrink_leading(old_len, new_len) ==
    IF new_len < old_len
    THEN <<0, new_len, 0>>
    ELSE IF new_len > old_len
    THEN LET dest_offset == (new_len - old_len) \div 2
         IN  <<0, old_len, dest_offset>>
    ELSE <<0, old_len, 0>>

\* mutant: a grown axis puts the old cells one place too far
Mutant_kept_window_grow_shifted(old_len, new_len) ==
    IF new_len < old_len
    THEN LET src_start == (old_len - new_len) \div 2
         IN  <<src_start, src_start + new_len, 0>>
    ELSE IF new_len > old_len
    THEN <<0, old_len, new_len - old_len + 1>>
    ELSE <<0, old_len, 0>>

\* mutant: a shrunk axis rounds its source offset up
Mutant_kept_window_shrink_round_up(old_len, new_len) ==
    IF new_len < old_len
    THEN LET src_start == (old_len - new_len + 1) \div 2
         IN  <<src_start, src_start + new_len, 0>>
    ELSE IF new_len > old_len
    THEN LET dest_offset == (new_len - old_len) \div 2
         IN  <<0, old_len, dest_offset>>
    ELSE <<0, old_len, 0>>

\* (src_start, src_end, dest_offset) of one axis
kept_window(old_len, new_len) ==
    IF new_len < old_len
    THEN LET src_start == (old_len - new_len) \div 2
         IN  <<src_start, src_start + new_len, 0>>
    ELSE IF new_len > old_len
    THEN LET dest_offset == (new_len - old_len) \div 2
         IN  <<0, old_len, dest_offset>>
    ELSE <<0, old_len, 0>>

\* mutant: the copy loop stops one column short of the kept window
Mutant_CopyKept_short(old_grid, new_w, new_h, xw, yw) ==
    [y_dest \in 0..(new_h - 1) |->
        [x_dest \in 0..(new_w - 1) |->
            LET x_src == x_dest - xw[3] + xw[1]
                y_src == y_dest - yw[3] + yw[1]
            IN  IF /\ x_src >= xw[1] /\ x_src < xw[2] - 1
                   /\ y_src >= yw[1] /\ y_src < yw[2]
                THEN old_grid[y_src][x_src]
                ELSE None]]

\* the copy loop of resize_grid: every old cell inside both kept windows is
\* written to its shifted position of an all-empty new grid
CopyKept(old_grid, new_w, new_h, xw, yw) ==
    [y_dest \in 0..(new_h - 1) |->
        [x_dest \in 0..(new_w - 1) |->
            LET x_src == x_dest - xw[3] + xw[1]
                y_src == y_dest - yw[3] + yw[1]
            IN  IF /\ x_src >= xw[1] /\ x_src < xw[2]
                   /\ y_src >= yw[1] /\ y_src < yw[2]
                THEN old_grid[y_src][x_src]
                ELSE None]]

\* positions of a w by h grid in row-major order (for y in 0..h, for x in 0..w)
RowMajor(w, h) == [i \in 1..(w * h) |-> <<(i - 1) \div w, (i - 1) % w>>]

\* mutant: the rows are tested before the columns
Mutant_LostBucket_rows_first(old_grid, y, x, xw, yw) ==
    IF x >= xw[1] /\ x < xw[2] /\ y >= yw[1] /\ y < yw[2]
    THEN "kept"
    ELSE IF old_grid[y][x] = None
    THEN "empty"
    ELSE LET lost_from_left == x < xw[1]
             lost_from_right == x >= xw[2]
             lost_from_top == y < yw[1]
             lost_from_bottom == y >= yw[2]
         IN  IF lost_from_top \/ lost_from_bottom
             THEN IF lost_from_top THEN "top" ELSE "bottom"
             ELSE IF lost_from_left \/ lost_from_right
             THEN IF lost_from_left THEN "left" ELSE "right"
             ELSE "none"

\* the bucket classify_lost_grains pushes the cell <<y, x>> to
LostBucket(old_grid, y, x, xw, yw) ==
    IF x >= xw[1] /\ x < xw[2] /\ y >= yw[1] /\ y < yw[2]
    THEN "kept"
    ELSE IF old_grid[y][x] = None
    THEN "empty"
    ELSE LET lost_from_left == x < xw[1]
             lost_from_right == x >= xw[2]
             lost_from_top == y < yw[1]
             lost_from_bottom == y >= yw[2]
         IN  IF lost_from_left \/ lost_from_right
             THEN IF lost_from_left THEN "left" ELSE "right"
             ELSE IF lost_from_top \/ lost_from_bottom
             THEN IF lost_from_top THEN "top" ELSE "bottom"
             ELSE "none"

\* the tags of one bucket, in scan order
LostOf(old_grid, xw, yw, bucket) ==
    LET InBucket(p) == LostBucket(old_grid, p[1], p[2], xw, yw) = bucket
        cells == SelectSeq(RowMajor(Cols(old_grid), Rows(old_grid)), InBucket)
    IN  [i \in 1..Len(cells) |-> old_grid[cells[i][1]][cells[i][2]]]

classify_lost_grains(old_grid, xw, yw) ==
    [left   |-> LostOf(old_grid, xw, yw, "left"),
     right  |-> LostOf(old_grid, xw, yw, "right"),
     top    |-> LostOf(old_grid, xw, yw, "top"),
     bottom |-> LostOf(old_grid, xw, yw, "bottom")]

\* mutant: the left band is walked from the top row down
Mutant_LeftScan_top_down(w, h, band_w_px) ==
    [i \in 1..(h * band_w_px) |-> <<(i - 1) \div band_w_px, (i - 1) % band_w_px>>]

\* for y in (0..h).rev() { for x in 0..band_w_px
LeftScan(w, h, band_w_px) ==
    [i \in 1..(h * band_w_px) |->
        <<h - 1 - ((i - 1) \div band_w_px), (i - 1) % band_w_px>>]

\* for y in (0..h).rev() { for x in (start..w).rev()
RightScan(w, h, band_w_px) ==
    LET start == Max(w - band_w_px, 0)
        n == w - start
    IN  [i \in 1..(h * n) |-> <<h - 1 - ((i - 1) \div n), w - 1 - ((i - 1) % n)>>]

\* for y in (0..band_h_px).rev() { for x in 0..w
TopScan(w, h, band_h_px) ==
    [i \in 1..(band_h_px * w) |-> <<band_h_px - 1 - ((i - 1) \div w), (i - 1) % w>>]

\* for y in start..h { for x in 0..w
BottomScan(w, h, band_h_px) ==
    LET start == Max(h - band_h_px, 0)
    IN  [i \in 1..((h - start) * w) |-> <<start + ((i - 1) \div w), (i - 1) % w>>]

\* for y in (0..h).rev() { for x in 0..w
OverflowScan(w, h) ==
    [i \in 1..(h * w) |-> <<h - 1 - ((i - 1) \div w), (i - 1) % w>>]

\* mutant: the band loop writes the "none" category for every grain it places
RECURSIVE Mutant_PlaceBand_retags(_, _, _, _, _)
Mutant_PlaceBand_retags(g, grains, scan, i, k) ==
    IF i > Len(scan)
    THEN g
    ELSE LET y == scan[i][1]
             x == scan[i][2]
         IN  IF g[y][x] = None
             THEN IF k <= Len(grains)
                  THEN Mutant_PlaceBand_retags(SetCell(g, y, x, 0), grains, scan,
                                               i + 1, k + 1)
                  ELSE g
             ELSE Mutant_PlaceBand_retags(g, grains, scan, i + 1, k)

\* mutant: the band loop writes into every cell of its scan, empty or not
RECURSIVE Mutant_PlaceBand_overwrites(_, _, _, _, _)
Mutant_PlaceBand_overwrites(g, grains, scan, i, k) ==
    IF i > Len(scan)
    THEN g
    ELSE LET y == scan[i][1]
             x == scan[i][2]
         IN  IF k <= Len(grains)
             THEN Mutant_PlaceBand_overwrites(SetCell(g, y, x, grains[k]), grains,
                                              scan, i + 1, k + 1)
             ELSE g

\* the loop shared by the four place_*_band functions: walk the scan, give
\* every empty cell the next grain, leave both loops when the grains run out
RECURSIVE PlaceBand(_, _, _, _, _)
PlaceBand(g, grains, scan, i, k) ==
    IF i > Len(scan)
    THEN g
    ELSE LET y == scan[i][1]
             x == scan[i][2]
         IN  IF g[y][x] = None
             THEN IF k <= Len(grains)
                  THEN PlaceBand(SetCell(g, y, x, grains[k]), grains, scan, i + 1, k + 1)
                  ELSE g
             ELSE PlaceBand(g, grains, scan, i + 1, k)

\* mutant: the left band takes no grain
Mutant_place_left_band_skipped(g, grains, band_w_px) == g

place_left_band(g, grains, band_w_px) ==
    PlaceBand(g, grains, LeftScan(Cols(g), Rows(g), band_w_px), 1, 1)

place_right_band(g, grains, band_w_px) ==
    PlaceBand(g, grains, RightScan(Cols(g), Rows(g), band_w_px), 1, 1)

place_top_band(g, grains, band_h_px) ==
    PlaceBand(g, grains, TopScan(Cols(g), Rows(g), band_h_px), 1, 1)

place_bottom_band(g, grains, band_h_px) ==
    PlaceBand(g, grains, BottomScan(Cols(g), Rows(g), band_h_px), 1, 1)

\* index of the first empty cell of the scan at or after i, 0 when none
RECURSIVE FirstEmpty(_, _, _)
FirstEmpty(g, scan, i) ==
    IF i > Len(scan)
    THEN 0
    ELSE IF g[scan[i][1]][scan[i][2]] = None
    THEN i
    ELSE FirstEmpty(g, scan, i + 1)

\* 'grain: for cat in grains: the first empty cell from the bottom row up
\* receives the grain; a grain that finds no empty cell is dropped
RECURSIVE place_overflow(_, _)
place_overflow(g, grains) ==
    IF Len(grains) = 0
    THEN g
    ELSE LET scan == OverflowScan(Cols(g), Rows(g))
             i == FirstEmpty(g, scan, 1)
         IN  IF i = 0
             THEN place_overflow(g, Tail(grains))
             ELSE place_overflow(SetCell(g, scan[i][1], scan[i][2], Head(grains)),
                                 Tail(grains))

\* iter().skip(n)
Skip(s, n) == SubSeq(s, n + 1, Len(s))

\* mutant: the bands are not cut to the size of the new grid
Mutant_BandPx_uncapped(new_w, new_h, dw, dh) ==
    LET new_cell_w == IF dw = 0 THEN 0 ELSE new_w \div dw
        new_cell_h == IF dh = 0 THEN 0 ELSE new_h \div dh
        band_w == Min(Max(new_cell_w \div 40, 2), 6)
        band_h == Min(Max(new_cell_h \div 40, 1), 3)
    IN  <<band_w * dw, band_h * dh>>

\* (band_w_px, band_h_px) of a new grid
BandPx(new_w, new_h, dw, dh) ==
    LET new_cell_w == IF dw = 0 THEN 0 ELSE new_w \div dw
        new_cell_h == IF dh = 0 THEN 0 ELSE new_h \div dh
        band_w == Min(Max(new_cell_w \div 40, 2), 6)
        band_h == Min(Max(new_cell_h \div 40, 1), 3)
    IN  <<Min(band_w * dw, new_w), Min(band_h * dh, new_h)>>

resize_grid(old_grid, new_w, new_h, dw, dh) ==
    LET old_h == Rows(old_grid)
        old_w == Cols(old_grid)
    IN  IF old_w = 0 \/ old_h = 0
        THEN EmptyGrid(new_w, new_h)
        ELSE IF old_w = new_w /\ old_h = new_h
        THEN old_grid
        ELSE
          LET xw == kept_window(old_w, new_w)
              yw == kept_window(old_h, new_h)
              g0 == CopyKept(old_grid, new_w, new_h, xw, yw)
              lost == classify_lost_grains(old_grid, xw, yw)
              band == BandPx(new_w, new_h, dw, dh)
              band_w_px == band[1]
              band_h_px == band[2]
              g1 == place_left_band(g0, lost.left, band_w_px)
              g2 == place_right_band(g1, lost.right, band_w_px)
              g3 == place_top_band(g2, lost.top, band_h_px)
              g4 == place_bottom_band(g3, lost.bottom, band_h_px)
              left_capacity == band_w_px * new_h
              right_capacity == band_w_px * new_h
              top_capacity == band_h_px * new_w
              bottom_capacity == band_h_px * new_w
              remaining == Skip(lost.left, left_capacity)
                           \o Skip(lost.right, right_capacity)
                           \o Skip(lost.top, top_capacity)
                           \o Skip(lost.bottom, bottom_capacity)
          IN  place_overflow(g4, remaining)

\* ------------------------------------------------------------------------
\* engine.rs: pure parts
\* ------------------------------------------------------------------------
\* mutant: the rows are walked from the top row down
Mutant_GravityScan_top_down(w, h) ==
    [i \in 1..((h - 1) * w) |-> <<(i - 1) \div w, (i - 1) % w>>]

\* mutant: the columns of a row are walked from the last one to the first
Mutant_GravityScan_right_to_left(w, h) ==
    [i \in 1..((h - 1) * w) |-> <<h - 2 - ((i - 1) \div w), w - 1 - ((i - 1) % w)>>]

\* for y in (0..h - 1).rev() { for x in 0..w
GravityScan(w, h) ==
    [i \in 1..((h - 1) * w) |-> <<h - 2 - ((i - 1) \div w), (i - 1) % w>>]

\* mutant: the move writes the destination and leaves the source occupied
Mutant_MoveGrain_keeps_source(g, y, x, nx) == SetCell(g, y + 1, nx, g[y][x])

\* the grid after the grain at <<y, x>> moved to <<y + 1, nx>>
MoveGrain(g, y, x, nx) == SetCell(SetCell(g, y + 1, nx, g[y][x]), y, x, None)

\* mutant: the random direction is always 1
Mutant_GravityStep_always_right(g, y, x, w) ==
    IF g[y][x] = None
    THEN {g}
    ELSE IF g[y + 1][x] = None
    THEN {MoveGrain(g, y, x, x)}
    ELSE {LET nx == x + dir
          IN  IF nx >= 0 /\ nx < w /\ g[y + 1][nx] = None
              THEN MoveGrain(g, y, x, nx)
              ELSE g : dir \in {1}}

\* the body of the two loops of apply_gravity for one cell: the grids it can
\* leave, one per outcome of rand::random()
GravityStep(g, y, x, w) ==
    IF g[y][x] = None
    THEN {g}
    ELSE IF g[y + 1][x] = None
    THEN {MoveGrain(g, y, x, x)}
    ELSE {LET nx == x + dir
          IN  IF nx >= 0 /\ nx < w /\ g[y + 1][nx] = None
              THEN MoveGrain(g, y, x, nx)
              ELSE g : dir \in {1, -1}}

\* the grids reachable from the grids of S by the scan steps i..Len(scan)
RECURSIVE GravityFrom(_, _, _, _)
GravityFrom(S, scan, i, w) ==
    IF i > Len(scan)
    THEN S
    ELSE GravityFrom(UNION {GravityStep(g, scan[i][1], scan[i][2], w) : g \in S},
                     scan, i + 1, w)

\* a grain of g that has an empty cell right below it
Floating(g) ==
    \E p \in Cells(g) :
        /\ p[1] + 1 < Rows(g)
        /\ g[p[1]][p[2]] /= None
        /\ g[p[1] + 1][p[2]] = None

\* apply_gravity indexes self.grid[0] before its loops: a grid without rows
\* is an index out of bounds
GravityPanics(g) == Rows(g) = 0

\* the grids one settling pass can leave (for a grid with at least one row)
apply_gravity(g) ==
    GravityFrom({g}, GravityScan(Cols(g), Rows(g)), 1, Cols(g))

\* mutant: resize_grid ends with a settling pass of its own
Mutant_resize_grid_outcomes_settled(old_grid, new_w, new_h, dw, dh) ==
    LET resized == resize_grid(old_grid, new_w, new_h, dw, dh)
    IN  IF Rows(resized) = 0 THEN {resized} ELSE apply_gravity(resized)

\* the grids one call of resize_grid can return: the function draws no
\* random number and walks Vecs and ranges only
resize_grid_outcomes(old_grid, new_w, new_h, dw, dh) ==
    {resize_grid(old_grid, new_w, new_h, dw, dh)}

\* self.grid.len() * self.grid[0].len(), 0 for an empty grid
capacity(g) ==
    IF Rows(g) = 0 \/ Cardinality(DOMAIN g[0]) = 0
    THEN 0
    ELSE Rows(g) * Cardinality(DOMAIN g[0])

\* mutant: the snapshot lists every cell, the empty ones as category 0
Mutant_snapshot_state_dense(g) ==
    LET cells == RowMajor(Cols(g), Rows(g))
    IN  [version     |-> VERSION,
         grid_width  |-> Cols(g),
         grid_height |-> Rows(g),
         grains      |-> [i \in 1..Len(cells) |->
                            [x |-> cells[i][2], y |-> cells[i][1],
                             category_id |->
                                IF g[cells[i][1]][cells[i][2]] = None
                                THEN 0
                                ELSE g[cells[i][1]][cells[i][2]]]]]

\* mutant: the snapshot records the row as x and the column as y
Mutant_snapshot_state_transposed(g) ==
    LET Occupied(p) == g[p[1]][p[2]] /= None
        cells == SelectSeq(RowMajor(Cols(g), Rows(g)), Occupied)
    IN  [version     |-> VERSION,
         grid_width  |-> Cols(g),
         grid_height |-> Rows(g),
         grains      |-> [i \in 1..Len(cells) |->
                            [x |-> cells[i][1], y |-> cells[i][2],
                             category_id |-> g[cells[i][1]][cells[i][2]]]]]

\* the sparse list of snapshot_state: one triple per occupied cell, rows
\* outer, columns inner
snapshot_state(g) ==
    LET Occupied(p) == g[p[1]][p[2]] /= None
        cells == SelectSeq(RowMajor(Cols(g), Rows(g)), Occupied)
    IN  [version     |-> VERSION,
         grid_width  |-> Cols(g),
         grid_height |-> Rows(g),
         grains      |-> [i \in 1..Len(cells) |->
                            [x |-> cells[i][2], y |-> cells[i][1],
                             category_id |-> g[cells[i][1]][cells[i][2]]]]]

\* mutant: a restored grain keeps its id whether it is valid or not
Mutant_normalized_id_unchecked(category_id, valid_category_ids) == category_id

\* the category a restored grain gets
normalized_id(category_id, valid_category_ids) ==
    IF category_id \in valid_category_ids THEN category_id ELSE 0

\* mutant: the range test of the loop also skips the last column and row
RECURSIVE Mutant_PlaceGrains_strict(_, _, _, _)
Mutant_PlaceGrains_strict(restored, state, valid_category_ids, i) ==
    IF i > Len(state.grains)
    THEN restored
    ELSE LET grain == state.grains[i]
         IN  IF grain.x + 1 >= state.grid_width \/ grain.y + 1 >= state.grid_height
             THEN Mutant_PlaceGrains_strict(restored, state, valid_category_ids, i + 1)
             ELSE Mutant_PlaceGrains_strict(
                    SetCell(restored, grain.y, grain.x,
                            normalized_id(grain.category_id, valid_category_ids)),
                    state, valid_category_ids, i + 1)

\* mutant: the loop leaves a cell that already holds a grain as it is
RECURSIVE Mutant_PlaceGrains_first_wins(_, _, _, _)
Mutant_PlaceGrains_first_wins(restored, state, valid_category_ids, i) ==
    IF i > Len(state.grains)
    THEN restored
    ELSE LET grain == state.grains[i]
         IN  IF grain.x >= state.grid_width \/ grain.y >= state.grid_height
             THEN Mutant_PlaceGrains_first_wins(restored, state, valid_category_ids, i + 1)
             ELSE IF restored[grain.y][grain.x] /= None
             THEN Mutant_PlaceGrains_first_wins(restored, state, valid_category_ids, i + 1)
             ELSE Mutant_PlaceGrains_first_wins(
                    SetCell(restored, grain.y, grain.x,
                            normalized_id(grain.category_id, valid_category_ids)),
                    state, valid_category_ids, i + 1)

\* the loop of restore_state over state.grains[i..]
RECURSIVE PlaceGrains(_, _, _, _)
PlaceGrains(restored, state, valid_category_ids, i) ==
    IF i > Len(state.grains)
    THEN restored
    ELSE LET grain == state.grains[i]
         IN  IF grain.x >= state.grid_width \/ grain.y >= state.grid_height
             THEN PlaceGrains(restored, state, valid_category_ids, i + 1)
             ELSE PlaceGrains(
                    SetCell(restored, grain.y, grain.x,
                            normalized_id(grain.category_id, valid_category_ids)),
                    state, valid_category_ids, i + 1)

\* the grid restore_state builds from the snapshot alone
RestoredGrid(state, valid_category_ids) ==
    PlaceGrains(EmptyGrid(state.grid_width, state.grid_height),
                state, valid_category_ids, 1)

\* mutant: clear leaves the last row as it is
Mutant_ClearedGrid_keeps_last_row(g) ==
    [y \in DOMAIN g |-> [x \in DOMAIN g[y] |->
        IF y = Rows(g) - 1 THEN g[y][x] ELSE None]]

\* clear(): every cell None, same rows
ClearedGrid(g) == [y \in DOMAIN g |-> [x \in DOMAIN g[y] |-> None]]

\* mutant: restore_state does not look at the version of the snapshot
Mutant_restore_state_any_version(g, state, valid_category_ids) ==
    IF state.grid_width = 0 \/ state.grid_height = 0
    THEN ClearedGrid(g)
    ELSE LET restored == RestoredGrid(state, valid_category_ids)
         IN  IF Cols(g) = 0 \/ Rows(g) = 0
             THEN restored
             ELSE IF Cols(g) = state.grid_width /\ Rows(g) = state.grid_height
             THEN restored
             ELSE resize_grid(restored, Cols(g), Rows(g), dot_width, dot_height)

\* mutant: into a grid of the snapshot's size the grains are written over
\* the live grid
Mutant_restore_state_over_live(g, state, valid_category_ids) ==
    IF state.version /= VERSION
    THEN g
    ELSE IF state.grid_width = 0 \/ state.grid_height = 0
    THEN ClearedGrid(g)
    ELSE LET restored == RestoredGrid(state, valid_category_ids)
             target_height == Rows(g)
             target_width == Cols(g)
         IN  IF target_width = 0 \/ target_height = 0
             THEN restored
             ELSE IF target_width = state.grid_width
                     /\ target_height = state.grid_height
             THEN PlaceGrains(g, state, valid_category_ids, 1)
             ELSE resize_grid(restored, target_width, target_height,
                              dot_width, dot_height)

\* mutant: a snapshot without area is ignored, the grid stays as it is
Mutant_restore_state_empty_ignored(g, state, valid_category_ids) ==
    IF state.version /= VERSION
    THEN g
    ELSE IF state.grid_width = 0 \/ state.grid_height = 0
    THEN g
    ELSE LET restored == RestoredGrid(state, valid_category_ids)
             target_height == Rows(g)
             target_width == Cols(g)
         IN  IF target_width = 0 \/ target_height = 0
             THEN restored
             ELSE IF target_width = state.grid_width
                     /\ target_height = state.grid_height
             THEN restored
             ELSE resize_grid(restored, target_width, target_height,
                              dot_width, dot_height)

\* the grid restore_state leaves in an engine whose grid is g
restore_state(g, state, valid_category_ids) ==
    IF state.version /= VERSION
    THEN g
    ELSE IF state.grid_width = 0 \/ state.grid_height = 0
    THEN ClearedGrid(g)
    ELSE LET restored == RestoredGrid(state, valid_category_ids)
             target_height == Rows(g)
             target_width == Cols(g)
         IN  IF target_width = 0 \/ target_height = 0
             THEN restored
             ELSE IF target_width = state.grid_width
                     /\ target_height = state.grid_height
             THEN restored
             ELSE resize_grid(restored, target_width, target_height,
                              dot_width, dot_height)

\* the grain count restore_state leaves
restore_count(g, count, state, valid_category_ids) ==
    IF state.version /= VERSION
    THEN count
    ELSE IF state.grid_width = 0 \/ state.grid_height = 0
    THEN 0
    ELSE CountGrains(restore_state(g, state, valid_category_ids))

\* mutant: the fourth row of the left column takes the next bit in line
Mutant_dot_index_in_line(dx, dy) ==
    CASE dx = 0 /\ dy = 0 -> 0
      [] dx = 0 /\ dy = 1 -> 1
      [] dx = 0 /\ dy = 2 -> 2
      [] dx = 0 /\ dy = 3 -> 3
      [] dx = 1 /\ dy = 0 -> 3
      [] dx = 1 /\ dy = 1 -> 4
      [] dx = 1 /\ dy = 2 -> 5
      [] dx = 1 /\ dy = 3 -> 7
      [] OTHER -> 0

\* bit of the braille mask for the sub-cell (dx, dy) of a character cell
dot_index(dx, dy) ==
    CASE dx = 0 /\ dy = 0 -> 0
      [] dx = 0 /\ dy = 1 -> 1
      [] dx = 0 /\ dy = 2 -> 2
      [] dx = 0 /\ dy = 3 -> 6
      [] dx = 1 /\ dy = 0 -> 3
      [] dx = 1 /\ dy = 1 -> 4
      [] dx = 1 /\ dy = 2 -> 5
      [] dx = 1 /\ dy = 3 -> 7
      [] OTHER -> 0

RECURSIVE Pow2(_)
Pow2(n) == IF n = 0 THEN 1 ELSE 2 * Pow2(n - 1)

\* dots of the character cell (cx, cy): the bits of its occupied sub-cells
\* (each sub-cell has its own bit, so the bitwise or is a sum)
RECURSIVE SumBits(_)
SumBits(S) ==
    IF S = {}
    THEN 0
    ELSE LET b == CHOOSE b \in S : TRUE
         IN  Pow2(b) + SumBits(S \ {b})

Dots(g, cx, cy) ==
    SumBits({dot_index(d[1], d[2]) :
             d \in {e \in (0..(dot_width - 1)) \X (0..(dot_height - 1)) :
                    LET gx == cx * dot_width + e[1]
                        gy == cy * dot_height + e[2]
                    IN  gy < Rows(g) /\ gx < Cols(g) /\ g[gy][gx] /= None}})

\* the glyphs render returns: cell_h lines of cell_w code points
render(g, w, h) ==
    LET cell_w == w
        cell_h == h \div dot_height
    IN  [cy \in 0..(cell_h - 1) |->
            [cx \in 0..(cell_w - 1) |-> braille_base + Dots(g, cx, cy)]]

\* the occupied sub-cells <<gy, gx>> of the character cell (cx, cy)
OccupiedDots(g, cx, cy) ==
    {<<cy * dot_height + e[2], cx * dot_width + e[1]>> :
        e \in {d \in (0..(dot_width - 1)) \X (0..(dot_height - 1)) :
                  LET gx == cx * dot_width + d[1]
                      gy == cy * dot_height + d[2]
                  IN  gy < Rows(g) /\ gx < Cols(g) /\ g[gy][gx] /= None}}

\* a Color: the named white, or Rgb(r, g, b)
White == [kind |-> "White", rgb |-> <<>>, parts |-> {}]
Rgb(r, g, b) == [kind |-> "Rgb", rgb |-> <<r, g, b>>, parts |-> {}]

\* mutant: category 0 is looked up in the list like any other id
Mutant_BlendChannels_none_listed(category_id, colors) ==
    IF category_id \in DOMAIN colors /\ colors[category_id].kind = "Rgb"
    THEN colors[category_id].rgb
    ELSE <<255, 255, 255>>

\* the (r, g, b) a category adds to the blend of a cell; colors maps the ids
\* of the categories passed to render to their Color
BlendChannels(category_id, colors) ==
    IF category_id = 0
    THEN <<255, 255, 255>>
    ELSE IF category_id \in DOMAIN colors /\ colors[category_id].kind = "Rgb"
    THEN colors[category_id].rgb
    ELSE <<255, 255, 255>>

\* the colour of the character cell (cx, cy): the named white without an
\* occupied sub-cell, else Rgb of the f32 blend of the categories' channels
\* weighted by count / total. With one category the weight is 1.0 and the
\* blend is its channels. When every category adds <<255, 255, 255>> each
\* channel is the f32 sum of 255 * (count / total), which for every split of
\* 1 to 8 sub-cells in every order is 255.0 or just above, and `as u8` gives
\* 255. Any other blend is kept as the set of <<category, channels, count>>
\* it is computed from.
cell_color(g, cx, cy, colors) ==
    LET occupied == OccupiedDots(g, cx, cy)
        ids == {g[p[1]][p[2]] : p \in occupied}
        Count(k) == Cardinality({p \in occupied : g[p[1]][p[2]] = k})
    IN  IF occupied = {}
        THEN White
        ELSE IF Cardinality(ids) = 1
        THEN LET k == CHOOSE k \in ids : TRUE
                 c == BlendChannels(k, colors)
             IN  Rgb(c[1], c[2], c[3])
        ELSE IF \A k \in ids : BlendChannels(k, colors) = <<255, 255, 255>>
        THEN Rgb(255, 255, 255)
        ELSE [kind |-> "Blend", rgb |-> <<>>,
              parts |-> {<<k, BlendChannels(k, colors), Count(k)>> : k \in ids}]

\* the colours of the spans render returns, line by line
render_colors(g, w, h, colors) ==
    LET cell_w == w
        cell_h == h \div dot_height
    IN  [cy \in 0..(cell_h - 1) |->
            [cx \in 0..(cell_w - 1) |-> cell_color(g, cx, cy, colors)]]

\* category lists render is called with, as maps from the ids listed to
\* their colours: the "none" category alone (it is listed in the named
\* white); with category 1 in orange; with categories 1 and 2; and one that
\* lists category 0 in green
Palettes ==
    {0 :> White,
     0 :> White @@ 1 :> Rgb(255, 128, 0),
     0 :> White @@ 1 :> Rgb(255, 128, 0) @@ 2 :> Rgb(11, 22, 255),
     0 :> Rgb(0, 176, 80) @@ 1 :> Rgb(255, 128, 0)}

\* ------------------------------------------------------------------------
\* storage.rs
\* ------------------------------------------------------------------------
NoState == [version |-> 0, grid_width |-> 0, grid_height |-> 0, grains |-> <<>>]

\* a sand_state.json: absent, unreadable as a SandState, or holding one
NoFile == [kind |-> "absent", state |-> NoState]
BadFile == [kind |-> "unparsable", state |-> NoState]
FileOf(state) == [kind |-> "state", state |-> state]

\* Option<SandState>: the empty sequence is None, <<state>> is Some(state)
load_sand_state(file) ==
    IF file.kind = "absent"
    THEN <<>>
    ELSE IF file.kind = "unparsable"
    THEN <<>>
    ELSE IF file.state.version = VERSION
    THEN <<file.state>>
    ELSE <<>>

\* ------------------------------------------------------------------------
\* The engine as a state machine
\* ------------------------------------------------------------------------
VARIABLES
    grid,          \* SandEngine.grid
    width,         \* SandEngine.width  (sub-cells)
    height,        \* SandEngine.height (sub-cells)
    frame_count,   \* SandEngine.frame_count, modulo 2 (only its parity is read)
    grain_count,   \* SandEngine.grain_count
    status,        \* "ok", or "panic" once an operation has panicked
    op             \* log of the specifications that study one operation at a
                   \* time: its name, its argument or result, and the size and
                   \* grain count of the grid it started from

vars == <<grid, width, height, frame_count, grain_count, status, op>>

\* the viewports new / resize are called with; a viewport without area has
\* sides 0 or 1
Viewports ==
    {v \in (0..MaxCells) \X (0..MaxCells) :
        /\ v[1] * v[2] <= MaxCells
        /\ (v[1] * v[2] = 0 => v[1] + v[2] <= 1)}

\* category ids: 0 is the "none" category, 1 a category of the tracker (the
\* active one, which spawn is called with), 2 an id no category has
Tags == {0, 1}
ActiveTags == {1}
AllIds == {0, 1, 2}
\* the sets of ids a caller passes as valid_category_ids
ValidSets == {{0, 1}, {0}}

\* an operation by name only
Did(name) == [name |-> name, arg |-> <<>>, pre |-> <<>>]

\* an operation with its argument and the grid it starts from
DidWith(name, arg) ==
    [name |-> name, arg |-> arg,
     pre |-> [w |-> Cols(grid), h |-> Rows(grid), rows |-> grid,
              count |-> grain_count,
              fields |-> <<width, height, frame_count>>]]

\* SandEngine::new(w, h): the fields of the struct literal, then resize(w, h)
\* on the empty Vec, which takes the first-sizing branch
New(w, h) ==
    /\ grid = EmptyGrid(w * dot_width, h * dot_height)
    /\ width = w * dot_width
    /\ height = h * dot_height
    /\ frame_count = 0
    /\ grain_count = 0
    /\ status = "ok"
    /\ op = Did("new")

Init == \E v \in Viewports : New(v[1], v[2])

\* mutant: resize has no early return for an unchanged size
Mutant_ResizeStep_always_settles(w, h) ==
    /\ status = "ok"
    /\ width' = w * dot_width
    /\ height' = h * dot_height
    /\ frame_count' = frame_count
    /\ LET new_w == w * dot_width
           new_h == h * dot_height
       IN  IF Cols(grid) = 0 \/ Rows(grid) = 0
           THEN /\ grid' = EmptyGrid(new_w, new_h)
                /\ grain_count' = 0
                /\ status' = "ok"
           ELSE LET resized == resize_grid(grid, new_w, new_h, dot_width, dot_height)
                IN  IF GravityPanics(resized)
                    THEN /\ grid' = resized
                         /\ grain_count' = grain_count
                         /\ status' = "panic"
                    ELSE \E settled \in apply_gravity(resized) :
                            /\ grid' = settled
                            /\ grain_count' = CountGrains(settled)
                            /\ status' = "ok"

\* mutant: resize has no branch for a grid without cells
Mutant_ResizeStep_no_first_sizing(w, h) ==
    /\ status = "ok"
    /\ width' = w * dot_width
    /\ height' = h * dot_height
    /\ frame_count' = frame_count
    /\ LET old_w == IF Rows(grid) = 0 THEN 0 ELSE Cardinality(DOMAIN grid[0])
           old_h == Rows(grid)
           new_w == w * dot_width
           new_h == h * dot_height
       IN  IF new_w = old_w /\ new_h = old_h
           THEN UNCHANGED <<grid, grain_count, status>>
           ELSE LET resized == resize_grid(grid, new_w, new_h, dot_width, dot_height)
                IN  IF GravityPanics(resized)
                    THEN /\ grid' = resized
                         /\ grain_count' = grain_count
                         /\ status' = "panic"
                    ELSE \E settled \in apply_gravity(resized) :
                            /\ grid' = settled
                            /\ grain_count' = CountGrains(settled)
                            /\ status' = "ok"

\* SandEngine::resize
ResizeStep(w, h) ==
    /\ status = "ok"
    /\ width' = w * dot_width
    /\ height' = h * dot_height
    /\ frame_count' = frame_count
    /\ LET old_w == IF Rows(grid) = 0 THEN 0 ELSE Cardinality(DOMAIN grid[0])
           old_h == Rows(grid)
           new_w == w * dot_width
           new_h == h * dot_height
       IN  IF old_w = 0 \/ old_h = 0
           THEN /\ grid' = EmptyGrid(new_w, new_h)
                /\ grain_count' = 0
                /\ status' = "ok"
           ELSE IF new_w = old_w /\ new_h = old_h
           THEN UNCHANGED <<grid, grain_count, status>>
           ELSE LET resized == resize_grid(grid, new_w, new_h, dot_width, dot_height)
                IN  IF GravityPanics(resized)
                    THEN /\ grid' = resized
                         /\ grain_count' = grain_count
                         /\ status' = "panic"
                    ELSE \E settled \in apply_gravity(resized) :
                            /\ grid' = settled
                            /\ grain_count' = CountGrains(settled)
                            /\ status' = "ok"

Resize(w, h) == ResizeStep(w, h) /\ UNCHANGED op

\* mutant: spawn gives up when the first column it draws is occupied
Mutant_SpawnAt_no_fallback(category_id, x, fallback_x) ==
    IF grid[0][x] = None
    THEN /\ grid' = SetCell(grid, 0, x, category_id)
         /\ grain_count' = grain_count + 1
    ELSE UNCHANGED <<grid, grain_count>>

\* the part of spawn after the two draws x and fallback_x (the second is
\* drawn only when column x is occupied)
SpawnAt(category_id, x, fallback_x) ==
    IF grid[0][x] = None
    THEN /\ grid' = SetCell(grid, 0, x, category_id)
         /\ grain_count' = grain_count + 1
    ELSE IF grid[0][fallback_x] = None
    THEN /\ grid' = SetCell(grid, 0, fallback_x, category_id)
         /\ grain_count' = grain_count + 1
    ELSE UNCHANGED <<grid, grain_count>>

\* mutant: spawn places the grain and does not count it
Mutant_SpawnStep_uncounted(category_id) ==
    /\ status = "ok"
    /\ UNCHANGED <<width, height, frame_count, status, grain_count>>
    /\ IF capacity(grid) = 0
       THEN UNCHANGED grid
       ELSE \E x \in DOMAIN grid[0] :
              IF grid[0][x] = None
              THEN grid' = SetCell(grid, 0, x, category_id)
              ELSE UNCHANGED grid

\* SandEngine::spawn; x and fallback_x are the two rng.gen_range(0..w) draws
SpawnStep(category_id) ==
    /\ status = "ok"
    /\ UNCHANGED <<width, height, frame_count, status>>
    /\ IF capacity(grid) = 0
       THEN UNCHANGED <<grid, grain_count>>
       ELSE \E x \in DOMAIN grid[0], fallback_x \in DOMAIN grid[0] :
              SpawnAt(category_id, x, fallback_x)

Spawn(category_id) ==
    /\ grain_count < MaxGrains
    /\ SpawnStep(category_id)
    /\ UNCHANGED op

\* mutant: update runs the settling pass on every call
Mutant_UpdateStep_every_call ==
    /\ status = "ok"
    /\ frame_count' = (frame_count + 1) % 2
    /\ UNCHANGED <<width, height, grain_count>>
    /\ IF GravityPanics(grid)
       THEN /\ status' = "panic"
            /\ grid' = grid
       ELSE /\ status' = "ok"
            /\ grid' \in apply_gravity(grid)

\* SandEngine::update
UpdateStep ==
    /\ status = "ok"
    /\ frame_count' = (frame_count + 1) % 2
    /\ UNCHANGED <<width, height, grain_count>>
    /\ IF frame_count' % 2 = 0
       THEN IF GravityPanics(grid)
            THEN /\ status' = "panic"
                 /\ grid' = grid
            ELSE /\ status' = "ok"
                 /\ grid' \in apply_gravity(grid)
       ELSE UNCHANGED <<grid, status>>

Update == UpdateStep /\ UNCHANGED op

\* SandEngine::clear
ClearStep ==
    /\ status = "ok"
    /\ grid' = ClearedGrid(grid)
    /\ grain_count' = 0
    /\ UNCHANGED <<width, height, frame_count, status>>

Clear == ClearStep /\ UNCHANGED op

\* SandEngine::restore_state
RestoreStep(state, valid_category_ids) ==
    /\ status = "ok"
    /\ grid' = restore_state(grid, state, valid_category_ids)
    /\ grain_count' = restore_count(grid, grain_count, state, valid_category_ids)
    /\ UNCHANGED <<width, height, frame_count, status>>

\* The process ends and starts again in a w by h viewport: the running
\* engine's snapshot_state is what persist_sand_state wrote, the new process
\* builds SandEngine::new(w, h) and restore_sand_state restores the file
\* into it.
Restart(w, h, valid_category_ids) ==
    /\ status = "ok"
    /\ LET loaded == load_sand_state(FileOf(snapshot_state(grid)))
           fresh == EmptyGrid(w * dot_width, h * dot_height)
       IN  IF loaded = <<>>
           THEN /\ grid' = fresh
                /\ grain_count' = 0
           ELSE /\ grid' = restore_state(fresh, loaded[1], valid_category_ids)
                /\ grain_count' = restore_count(fresh, 0, loaded[1],
                                                valid_category_ids)
    /\ width' = w * dot_width
    /\ height' = h * dot_height
    /\ frame_count' = 0
    /\ status' = "ok"
    /\ UNCHANGED op

Next ==
    \/ \E v \in Viewports : Resize(v[1], v[2])
    \/ \E c \in ActiveTags : Spawn(c)
    \/ Update
    \/ Clear
    \/ \E v \in Viewports, valid \in ValidSets : Restart(v[1], v[2], valid)

Spec == Init /\ [][Next]_vars

\* ------------------------------------------------------------------------
\* resize_grid applied once to a pile (SpecResize)
\* ------------------------------------------------------------------------
\* the grid of a w by h viewport holding a block of grains in the columns
\* x0..x1 of the rows y0..y1, tagged 0 and 1 in a checkerboard
Block(w, h, x0, x1, y0, y1) ==
    [y \in 0..(h * dot_height - 1) |->
        [x \in 0..(w * dot_width - 1) |->
            IF x >= x0 /\ x <= x1 /\ y >= y0 /\ y <= y1
            THEN (x + y) % 2
            ELSE None]]

\* the piles of a w by h viewport: no grain, one grain anywhere, or a block
\* that reaches into one of the four corners
Piles(w, h) ==
    LET W == w * dot_width
        H == h * dot_height
    IN  {EmptyGrid(W, H)}
        \cup {Block(w, h, p[1], p[1], p[2], p[2]) : p \in (0..(W - 1)) \X (0..(H - 1))}
        \cup {Block(w, h, 0, p[1], 0, p[2]) : p \in (0..(W - 1)) \X (0..(H - 1))}
        \cup {Block(w, h, p[1], W - 1, 0, p[2]) : p \in (0..(W - 1)) \X (0..(H - 1))}
        \cup {Block(w, h, 0, p[1], p[2], H - 1) : p \in (0..(W - 1)) \X (0..(H - 1))}
        \cup {Block(w, h, p[1], W - 1, p[2], H - 1) : p \in (0..(W - 1)) \X (0..(H - 1))}

\* the viewports <<w, h>> of the piles and of the grids they are resized to
PileViewports ==
    {v \in (0..MaxPileW) \X (0..MaxPileH) : v[1] * v[2] <= MaxPileCells}

\* an engine whose grid holds a pile (restore_state puts any pile there)
InitResize ==
    \E v \in {u \in PileViewports : u[1] > 0 /\ u[2] > 0} :
        \E pile \in Piles(v[1], v[2]) :
            /\ grid = pile
            /\ width = v[1] * dot_width
            /\ height = v[2] * dot_height
            /\ frame_count = 0
            /\ grain_count = CountGrains(pile)
            /\ status = "ok"
            /\ op = Did("pile")

\* resize_grid(&grid, new_w, new_h, dot_width, dot_height) for the viewport
\* w by h, as resize and restore_state call it, and the recount that follows
ResizeGrid(w, h) ==
    /\ op.name = "pile"
    /\ grid' = resize_grid(grid, w * dot_width, h * dot_height, dot_width, dot_height)
    /\ width' = w * dot_width
    /\ height' = h * dot_height
    /\ grain_count' = CountGrains(grid')
    /\ op' = DidWith("resize_grid", <<w * dot_width, h * dot_height>>)
    /\ UNCHANGED <<frame_count, status>>

\* two calls of resize_grid with the same arguments: the grid keeps the
\* first result, the second is set beside it
ResizeGridTwice(w, h) ==
    /\ op.name = "pile"
    /\ \E first \in resize_grid_outcomes(grid, w * dot_width, h * dot_height,
                                         dot_width, dot_height),
          second \in resize_grid_outcomes(grid, w * dot_width, h * dot_height,
                                          dot_width, dot_height) :
          /\ grid' = first
          /\ op' = DidWith("resize_grid_twice",
                           [new_w |-> w * dot_width, new_h |-> h * dot_height,
                            second |-> second])
    /\ width' = w * dot_width
    /\ height' = h * dot_height
    /\ grain_count' = CountGrains(grid')
    /\ UNCHANGED <<frame_count, status>>

NextResize ==
    \/ \E v \in PileViewports : ResizeGrid(v[1], v[2])
    \/ \E v \in PileViewports : ResizeGridTwice(v[1], v[2])

SpecResize == InitResize /\ [][NextResize]_vars

\* the grains resize_grid classified as lost in the step just taken
LostInStep ==
    LET xw == kept_window(op.pre.w, op.arg[1])
        yw == kept_window(op.pre.h, op.arg[2])
    IN  classify_lost_grains(op.pre.rows, xw, yw)

\* C1: after a resize to a non-zero size the number of occupied cells is
\* min(N, new capacity), N being the number before the resize.
C1_ResizeConserves ==
    (op.name = "resize_grid" /\ op.arg[1] > 0 /\ op.arg[2] > 0)
        => CountGrains(grid) = Min(op.pre.count, capacity(grid))

\* C3: a resize to a size equal or larger on both axes classifies no grain as
\* lost and keeps the number of grains.
C3_GrowKeepsCount ==
    (op.name = "resize_grid" /\ op.arg[1] >= op.pre.w /\ op.arg[2] >= op.pre.h)
        => /\ CountGrains(grid) = op.pre.count
           /\ LostInStep = [left |-> <<>>, right |-> <<>>, top |-> <<>>, bottom |-> <<>>]

\* a pile of several grains after a resize that grew both axes
C3_Witness ==
    /\ op.name = "resize_grid"
    /\ op.arg[1] > op.pre.w
    /\ op.arg[2] > op.pre.h
    /\ op.pre.count > 2
    /\ CountGrains(grid) = op.pre.count

\* C4: a resize retags no grain: no tag has more cells after it than before,
\* no tag appears that the grid did not hold, and the grains that are gone
\* are exactly the decreases of the tags summed up.
C4_NoRetagging ==
    op.name = "resize_grid" =>
        /\ \A k \in AllIds : CountTag(grid, k) <= CountTag(op.pre.rows, k)
        /\ TagsOf(grid) \subseteq TagsOf(op.pre.rows)
        /\ op.pre.count - CountGrains(grid) =
              (CountTag(op.pre.rows, 0) - CountTag(grid, 0))
            + (CountTag(op.pre.rows, 1) - CountTag(grid, 1))
            + (CountTag(op.pre.rows, 2) - CountTag(grid, 2))

\* a shrink that lost grains of both tags, put some back and dropped others
C4_Witness ==
    /\ op.name = "resize_grid"
    /\ LostInStep.bottom /= <<>>
    /\ CountTag(grid, 0) > 0 /\ CountTag(grid, 1) > 0
    /\ CountGrains(grid) < op.pre.count
    /\ CountGrains(grid) > 0

\* the cells of the left band of the grid the step just taken left
LeftBandCells ==
    LET band_w_px == BandPx(op.arg[1], op.arg[2], dot_width, dot_height)[1]
    IN  {p \in Cells(grid) : p[2] < band_w_px}

\* C15 as stated: after a resize that cut a grain off the left side the left
\* band of the new grid holds a grain.
C15_LeftBandHoldsGrain ==
    (op.name = "resize_grid" /\ LostInStep.left /= <<>>)
        => \E p \in LeftBandCells : grid[p[1]][p[2]] /= None

\* C15, amended: after a resize to a non-zero size that cut a grain off the
\* left side the left band of the new grid holds a grain, and holds one in
\* the bottom row, where the settling pass of resize() moves no grain.
C15_LeftBandHoldsGrainNonZero ==
    (/\ op.name = "resize_grid"
     /\ op.arg[1] > 0 /\ op.arg[2] > 0
     /\ LostInStep.left /= <<>>)
        => /\ \E p \in LeftBandCells : grid[p[1]][p[2]] /= None
           /\ \E p \in LeftBandCells :
                 p[1] = Rows(grid) - 1 /\ grid[p[1]][p[2]] /= None

\* a pile whose only grains were left of the kept window: the left band of
\* the narrower grid holds them
C15_Witness ==
    /\ op.name = "resize_grid"
    /\ op.arg[1] > 0 /\ op.arg[2] > 0
    /\ op.arg[1] < op.pre.w
    /\ Len(LostInStep.left) = op.pre.count
    /\ LostInStep.left /= <<>>
    /\ \E p \in LeftBandCells : grid[p[1]][p[2]] /= None

\* the centre cell <<row, column>> of the grid the step started from
CenterCell == <<op.pre.h \div 2, op.pre.w \div 2>>

\* C16: when a grid shrinks to a smaller non-zero size, the cell at row
\* old_h / 2 and column old_w / 2 is inside the kept window on both axes: a
\* grain there is copied, not redistributed, and if it is the only grain the
\* grid holds one grain afterwards.
C16_CenterGrainKept ==
    (/\ op.name = "resize_grid"
     /\ op.arg[1] > 0 /\ op.arg[2] > 0
     /\ op.arg[1] <= op.pre.w /\ op.arg[2] <= op.pre.h
     /\ (op.arg[1] < op.pre.w \/ op.arg[2] < op.pre.h)
     /\ op.pre.rows[CenterCell[1]][CenterCell[2]] /= None)
    => LET xw == kept_window(op.pre.w, op.arg[1])
           yw == kept_window(op.pre.h, op.arg[2])
       IN  /\ xw[1] <= CenterCell[2] /\ CenterCell[2] < xw[2]
           /\ yw[1] <= CenterCell[1] /\ CenterCell[1] < yw[2]
           /\ LostBucket(op.pre.rows, CenterCell[1], CenterCell[2], xw, yw) = "kept"
           /\ grid[CenterCell[1] - yw[1] + yw[3]][CenterCell[2] - xw[1] + xw[3]]
                 = op.pre.rows[CenterCell[1]][CenterCell[2]]
           /\ op.pre.count = 1 => (CountGrains(grid) = 1 /\ grain_count = 1)

\* a lone grain in the centre cell after a shrink of both axes
C16_Witness ==
    /\ op.name = "resize_grid"
    /\ op.arg[1] > 0 /\ op.arg[2] > 0
    /\ op.arg[1] < op.pre.w /\ op.arg[2] < op.pre.h
    /\ op.pre.count = 1
    /\ op.pre.rows[CenterCell[1]][CenterCell[2]] /= None
    /\ grain_count = 1

\* the old cells <<row, column>> inside both kept windows that hold a grain
KeptGrains ==
    LET xw == kept_window(op.pre.w, op.arg[1])
        yw == kept_window(op.pre.h, op.arg[2])
    IN  {p \in Cells(op.pre.rows) :
            /\ yw[1] <= p[1] /\ p[1] < yw[2]
            /\ xw[1] <= p[2] /\ p[2] < xw[2]
            /\ op.pre.rows[p[1]][p[2]] /= None}

\* C23: in the grid resize_grid returns, the grain of every old cell inside
\* both kept windows is at the shifted position (row - y_src_start +
\* y_dest_offset, col - x_src_start + x_dest_offset) with its tag, and no two
\* of them share a position: the band and overflow placement fill empty
\* cells only, so no kept grain is overwritten or moved.
C23_KeptGrainsStay ==
    op.name = "resize_grid" =>
        LET xw == kept_window(op.pre.w, op.arg[1])
            yw == kept_window(op.pre.h, op.arg[2])
            Shifted(p) == <<p[1] - yw[1] + yw[3], p[2] - xw[1] + xw[3]>>
        IN  /\ \A p \in KeptGrains :
                  /\ Shifted(p) \in Cells(grid)
                  /\ grid[Shifted(p)[1]][Shifted(p)[2]] = op.pre.rows[p[1]][p[2]]
            /\ \A p, q \in KeptGrains : Shifted(p) = Shifted(q) => p = q

\* a shrink that keeps grains of both tags and places a lost grain next to
\* them
C23_Witness ==
    /\ op.name = "resize_grid"
    /\ op.arg[1] < op.pre.w
    /\ \E p, q \in KeptGrains : op.pre.rows[p[1]][p[2]] /= op.pre.rows[q[1]][q[2]]
    /\ CountGrains(grid) > Cardinality(KeptGrains)
    /\ CountGrains(grid) < Cardinality(Cells(grid))

\* C24: every grain outside the kept window is in exactly one of the four
\* lost buckets, each bucket listing its grains' tags in row-major order: a
\* grain whose column is outside the horizontal window is in left or right,
\* whatever its row; top and bottom hold only grains whose column is inside
\* the horizontal window; the sizes of the buckets add up to the number of
\* grains outside the kept window.
C24_LostBuckets ==
    op.name = "resize_grid" =>
        LET old == op.pre.rows
            xw == kept_window(op.pre.w, op.arg[1])
            yw == kept_window(op.pre.h, op.arg[2])
            InX(p) == xw[1] <= p[2] /\ p[2] < xw[2]
            InY(p) == yw[1] <= p[1] /\ p[1] < yw[2]
            Grain(p) == old[p[1]][p[2]] /= None
            Left(p) == Grain(p) /\ p[2] < xw[1]
            Right(p) == Grain(p) /\ p[2] >= xw[2]
            Top(p) == Grain(p) /\ InX(p) /\ p[1] < yw[1]
            Bottom(p) == Grain(p) /\ InX(p) /\ p[1] >= yw[2]
            scan == [i \in 1..(op.pre.w * op.pre.h) |->
                        <<(i - 1) \div op.pre.w, (i - 1) % op.pre.w>>]
            TagsIn(cells) == [i \in 1..Len(cells) |-> old[cells[i][1]][cells[i][2]]]
            outside == {p \in Cells(old) : Grain(p) /\ ~(InX(p) /\ InY(p))}
            lost == LostInStep
        IN  /\ lost.left = TagsIn(SelectSeq(scan, Left))
            /\ lost.right = TagsIn(SelectSeq(scan, Right))
            /\ lost.top = TagsIn(SelectSeq(scan, Top))
            /\ lost.bottom = TagsIn(SelectSeq(scan, Bottom))
            /\ \A p \in outside :
                  Cardinality({b \in {"left", "right", "top", "bottom"} :
                      \/ b = "left" /\ Left(p)
                      \/ b = "right" /\ Right(p)
                      \/ b = "top" /\ Top(p)
                      \/ b = "bottom" /\ Bottom(p)}) = 1
            /\ Len(lost.left) + Len(lost.right) + Len(lost.top) + Len(lost.bottom)
                  = Cardinality(outside)

\* a shrink of both axes of a full grid: the corner grains are in the left
\* and right buckets, the top and bottom buckets hold grains too
C24_Witness ==
    /\ op.name = "resize_grid"
    /\ op.arg[1] > 0 /\ op.arg[1] < op.pre.w
    /\ op.arg[2] > 0 /\ op.arg[2] < op.pre.h
    /\ op.pre.rows[0][0] /= None
    /\ op.pre.rows[op.pre.h - 1][op.pre.w - 1] /= None
    /\ LostInStep.left /= <<>> /\ LostInStep.right /= <<>>
    /\ LostInStep.top /= <<>> /\ LostInStep.bottom /= <<>>

\* the grid of resize_grid after the copy loop and after each band, with the
\* buckets and band sizes of the step just taken
ResizeStages ==
    LET xw == kept_window(op.pre.w, op.arg[1])
        yw == kept_window(op.pre.h, op.arg[2])
        g0 == CopyKept(op.pre.rows, op.arg[1], op.arg[2], xw, yw)
        lost == classify_lost_grains(op.pre.rows, xw, yw)
        band == BandPx(op.arg[1], op.arg[2], dot_width, dot_height)
        g1 == place_left_band(g0, lost.left, band[1])
        g2 == place_right_band(g1, lost.right, band[1])
        g3 == place_top_band(g2, lost.top, band[2])
        g4 == place_bottom_band(g3, lost.bottom, band[2])
    IN  [copied |-> g0, left |-> g1, right |-> g2, top |-> g3, bottom |-> g4,
         lost |-> lost, band_w_px |-> band[1], band_h_px |-> band[2]]

\* resize_grid went past its two early returns in the step just taken
Redistributes ==
    /\ op.name = "resize_grid"
    /\ op.pre.w > 0 /\ op.pre.h > 0
    /\ op.arg /= <<op.pre.w, op.pre.h>>

\* after holds before plus the grains, one per empty cell of the band, the
\* k-th grain in the k-th empty cell of the band, the cells taken by rising
\* turn, until the grains or the empty cells of the band run out; nothing
\* else differs
FilledInOrder(before, after, grains, band, turn) ==
    LET empty == {c \in band : before[c[1]][c[2]] = None}
        Rank(c) == 1 + Cardinality({d \in empty : turn[d] < turn[c]})
    IN  /\ \A c \in empty :
              after[c[1]][c[2]] = IF Rank(c) <= Len(grains) THEN grains[Rank(c)] ELSE None
        /\ \A c \in Cells(before) \ empty : after[c[1]][c[2]] = before[c[1]][c[2]]

\* C26: the left and the right band are filled bottom row first; within a
\* row the left band from column 0 rightwards and the right band from the
\* last column leftwards; the grains of the bucket are taken in scan order,
\* one per empty cell, until the grains run out or the band has no empty cell.
C26_SideBandOrder ==
    Redistributes =>
        LET st == ResizeStages
            new_w == op.arg[1]
            LeftBand == {c \in Cells(st.copied) : c[2] < st.band_w_px}
            RightBand == {c \in Cells(st.copied) : c[2] >= new_w - st.band_w_px}
            new_h == op.arg[2]
            LeftOrder == [c \in LeftBand |-> (new_h - 1 - c[1]) * new_w + c[2]]
            RightOrder == [c \in RightBand |->
                              (new_h - 1 - c[1]) * new_w + (new_w - 1 - c[2])]
        IN  /\ FilledInOrder(st.copied, st.left, st.lost.left, LeftBand, LeftOrder)
            /\ FilledInOrder(st.left, st.right, st.lost.right, RightBand, RightOrder)

\* a shrink in width to a grid wider than a band, with kept grains in
\* the way: the left and the right bucket hold grains of both tags, the
\* bands keep empty cells
C26_Witness ==
    /\ Redistributes
    /\ op.arg[1] < op.pre.w
    /\ ResizeStages.band_w_px < op.arg[1]
    /\ KeptGrains /= {}
    /\ \E i, j \in DOMAIN ResizeStages.lost.left :
          ResizeStages.lost.left[i] /= ResizeStages.lost.left[j]
    /\ \E i, j \in DOMAIN ResizeStages.lost.right :
          ResizeStages.lost.right[i] /= ResizeStages.lost.right[j]
    /\ CountGrains(ResizeStages.right) > CountGrains(ResizeStages.copied)
    /\ CountGrains(ResizeStages.right) < Cardinality(Cells(ResizeStages.right))

\* C27: the top and the bottom band are filled left to right within a row,
\* the row on the edge of the grid first: row 0 first in the top band, the
\* last row first in the bottom band.
C27_EdgeRowFirst ==
    Redistributes =>
        LET st == ResizeStages
            new_h == op.arg[2]
            TopBand == {c \in Cells(st.copied) : c[1] < st.band_h_px}
            BottomBand == {c \in Cells(st.copied) : c[1] >= new_h - st.band_h_px}
            new_w == op.arg[1]
            TopOrder == [c \in TopBand |-> c[1] * new_w + c[2]]
            BottomOrder == [c \in BottomBand |-> (new_h - 1 - c[1]) * new_w + c[2]]
        IN  /\ FilledInOrder(st.right, st.top, st.lost.top, TopBand, TopOrder)
            /\ FilledInOrder(st.top, st.bottom, st.lost.bottom, BottomBand, BottomOrder)

\* C28: the overflow placement takes the grains of the left, right, top and
\* bottom bucket, in that order, that were not placed in their band, and puts
\* each into the first empty cell from the bottom row up, left to right
\* within a row; once the grid has no empty cell the grains left are dropped.
C28_OverflowTakesUnplaced ==
    Redistributes =>
        LET st == ResizeStages
            Unplaced(bucket, before, after) ==
                SubSeq(bucket, CountGrains(after) - CountGrains(before) + 1, Len(bucket))
            unplaced == Unplaced(st.lost.left, st.copied, st.left)
                        \o Unplaced(st.lost.right, st.left, st.right)
                        \o Unplaced(st.lost.top, st.right, st.top)
                        \o Unplaced(st.lost.bottom, st.top, st.bottom)
            OverflowOrder == [c \in Cells(st.bottom) |->
                                 (op.arg[2] - 1 - c[1]) * op.arg[1] + c[2]]
        IN  FilledInOrder(st.bottom, grid, unplaced, Cells(st.bottom), OverflowOrder)

PileSpawn(category_id, x, fallback_x) ==
    /\ op.name = "pile"
    /\ SpawnStep(category_id)
    /\ SpawnAt(category_id, x, fallback_x)
    /\ op' = DidWith("spawn", <<category_id, x, fallback_x>>)

\* resize called with the viewport the grid already has
PileResizeSame ==
    /\ op.name = "pile"
    /\ ResizeStep(Cols(grid) \div dot_width, Rows(grid) \div dot_height)
    /\ op' = DidWith("resize", <<Cols(grid) \div dot_width, Rows(grid) \div dot_height>>)

\* clear()
PileClear ==
    /\ op.name = "pile"
    /\ ClearStep
    /\ op' = DidWith("clear", <<>>)

\* the clear of one category that handle_normal_key calls on shift-c: every
\* grain of the category is removed, the others stay, grain_count is the
\* number of grains left
ClearCategoryStep(category_id) ==
    /\ status = "ok"
    /\ grid' = [y \in DOMAIN grid |-> [x \in DOMAIN grid[y] |->
                    IF grid[y][x] = category_id THEN None ELSE grid[y][x]]]
    /\ grain_count' = CountGrains(grid')
    /\ UNCHANGED <<width, height, frame_count, status>>

PileClearCategory(category_id) ==
    /\ op.name = "pile"
    /\ ClearCategoryStep(category_id)
    /\ op' = DidWith("clear_category", <<category_id>>)

\* snapshot_state(): &self, the engine stays as it is; the log keeps the
\* value returned
PileSnapshot ==
    /\ op.name = "pile"
    /\ status = "ok"
    /\ UNCHANGED <<grid, width, height, frame_count, grain_count, status>>
    /\ op' = DidWith("snapshot_state", snapshot_state(grid))

\* render(): &self, the engine stays as it is; the log keeps the glyphs of
\* the lines returned
PileRender ==
    /\ op.name = "pile"
    /\ status = "ok"
    /\ UNCHANGED <<grid, width, height, frame_count, grain_count, status>>
    /\ op' = DidWith("render", render(grid, width, height))

NextPile ==
    \/ \E c \in ActiveTags, x \in DOMAIN grid[0], fallback_x \in DOMAIN grid[0] :
          PileSpawn(c, x, fallback_x)
    \/ PileResizeSame
    \/ PileClear
    \/ \E c \in AllIds : PileClearCategory(c)
    \/ PileSnapshot
    \/ PileRender

SpecPile == InitResize /\ [][NextPile]_vars

\* the cells the step just taken changed
ChangedCells == {p \in Cells(grid) : grid[p[1]][p[2]] /= op.pre.rows[p[1]][p[2]]}

\* C13: spawn(c) changes at most one cell, an empty cell of row 0 that gets
\* the tag c; grain_count grows by 1 exactly when a grain was placed; the
\* grain is dropped exactly when both drawn cells of row 0 are occupied, so
\* never when row 0 is empty and always when row 0 is full.
C13_SpawnPlacesOneOrNone ==
    op.name = "spawn" =>
        LET c == op.arg[1]
            x == op.arg[2]
            fallback_x == op.arg[3]
            old == op.pre.rows
        IN  /\ Cols(grid) = op.pre.w /\ Rows(grid) = op.pre.h
            /\ Cardinality(ChangedCells) <= 1
            /\ \A p \in ChangedCells :
                  p[1] = 0 /\ old[p[1]][p[2]] = None /\ grid[p[1]][p[2]] = c
            /\ grain_count = op.pre.count + Cardinality(ChangedCells)
            /\ (ChangedCells = {}) <=> (old[0][x] /= None /\ old[0][fallback_x] /= None)
            /\ (\A q \in DOMAIN old[0] : old[0][q] = None) => ChangedCells /= {}
            /\ (\A q \in DOMAIN old[0] : old[0][q] /= None) => ChangedCells = {}

\* the first draw hit an occupied cell of row 0 and the grain went into the
\* fallback column
C13_Witness ==
    /\ op.name = "spawn"
    /\ op.pre.rows[0][op.arg[2]] /= None
    /\ ChangedCells = {<<0, op.arg[3]>>}
    /\ grain_count = op.pre.count + 1

\* C17: resize() to the size the grid already has is the identity: every
\* cell stays as it is, also a grain above an empty cell (no settling pass
\* runs), and grain_count stays as it is.
C17_ResizeSameIsIdentity ==
    (/\ op.name = "resize"
     /\ op.arg[1] * dot_width = op.pre.w
     /\ op.arg[2] * dot_height = op.pre.h)
    => /\ grid = op.pre.rows
       /\ grain_count = op.pre.count
       /\ width = op.pre.w /\ height = op.pre.h
       /\ status = "ok"

\* a pile with a grain above an empty cell after a resize to its own size
C17_Witness ==
    /\ op.name = "resize"
    /\ op.arg[1] * dot_width = op.pre.w
    /\ op.arg[2] * dot_height = op.pre.h
    /\ Floating(grid)
    /\ grain_count > 1

\* C18: clear() empties every cell, sets grain_count to 0 and keeps the size
\* of the grid; the clear of one category removes exactly the grains of that
\* category, leaves every other cell as it was, and leaves grain_count the
\* number of grains that remain.
C18_ClearAndClearCategory ==
    /\ op.name = "clear" =>
          /\ \A p \in Cells(grid) : grid[p[1]][p[2]] = None
          /\ grain_count = 0
          /\ Cols(grid) = op.pre.w /\ Rows(grid) = op.pre.h
          /\ <<width, height, frame_count>> = op.pre.fields
    /\ op.name = "clear_category" =>
          /\ Cols(grid) = op.pre.w /\ Rows(grid) = op.pre.h
          /\ \A p \in Cells(grid) :
                grid[p[1]][p[2]] =
                    IF op.pre.rows[p[1]][p[2]] = op.arg[1]
                    THEN None
                    ELSE op.pre.rows[p[1]][p[2]]
          /\ grain_count = CountGrains(grid)
          /\ grain_count = op.pre.count - CountTag(op.pre.rows, op.arg[1])

\* a pile of several grains after clear()
C18_Witness ==
    /\ op.name = "clear"
    /\ op.pre.count > 2
    /\ grain_count = 0
    /\ Rows(grid) = op.pre.h

\* C19: snapshot_state() returns the current version, the width and height
\* of the grid in sub-cells and one triple (x = column, y = row, category)
\* for every occupied cell and none for an empty cell, and leaves the engine
\* as it is.
C19_SnapshotListsOccupiedCells ==
    op.name = "snapshot_state" =>
        LET state == op.arg
            occupied == {p \in Cells(grid) : grid[p[1]][p[2]] /= None}
        IN  /\ state.version = VERSION
            /\ state.grid_width = Cols(grid)
            /\ state.grid_height = Rows(grid)
            /\ Len(state.grains) = Cardinality(occupied)
            /\ Len(state.grains) = grain_count
            /\ \A p \in occupied :
                  Cardinality({i \in 1..Len(state.grains) :
                                  state.grains[i] = [x |-> p[2], y |-> p[1],
                                                     category_id |-> grid[p[1]][p[2]]]}) = 1
            /\ \A i \in 1..Len(state.grains) :
                  <<state.grains[i].y, state.grains[i].x>> \in occupied
            /\ grid = op.pre.rows
            /\ grain_count = op.pre.count
            /\ <<width, height, frame_count>> = op.pre.fields

\* the snapshot of a pile of several grains of both tags in a grid wider
\* than one cell
C19_Witness ==
    /\ op.name = "snapshot_state"
    /\ Len(op.arg.grains) > 2
    /\ Len(op.arg.grains) < capacity(grid)
    /\ op.arg.grid_width > dot_width
    /\ TagsOf(grid) = {0, 1}

\* C20: render() of an engine of w by h character cells returns h lines of w
\* glyphs, each glyph showing its own dot_width by dot_height block of
\* sub-cells.
C20_RenderOneGlyphPerCell ==
    op.name = "render" =>
        LET lines == op.arg
            w == width \div dot_width
            h == height \div dot_height
        IN  /\ Cardinality(DOMAIN lines) = h
            /\ \A cy \in DOMAIN lines :
                  /\ Cardinality(DOMAIN lines[cy]) = w
                  /\ \A cx \in DOMAIN lines[cy] :
                        lines[cy][cx] = braille_base + Dots(grid, cx, cy)

\* bit b of the mask m
Bit(m, b) == (m \div Pow2(b)) % 2

\* C21: the glyph of every rendered cell is braille_base + mask; the
\* sub-cells of the left column, rows 0 to 3, own the bits 0, 1, 2, 6 and
\* those of the right column the bits 3, 4, 5, 7; a bit is set exactly when
\* its sub-cell is occupied; a cell without an occupied sub-cell is the blank
\* braille glyph in white.
C21_GlyphIsBrailleMask ==
    op.name = "render" =>
        LET lines == op.arg
            bits == <<<<0, 1, 2, 6>>, <<3, 4, 5, 7>>>>
        IN  \A cy \in DOMAIN lines : \A cx \in DOMAIN lines[cy] :
              LET mask == lines[cy][cx] - braille_base
                  Occupied(dx, dy) ==
                      LET gx == cx * dot_width + dx
                          gy == cy * dot_height + dy
                      IN  gy < Rows(grid) /\ gx < Cols(grid) /\ grid[gy][gx] /= None
              IN  /\ mask >= 0 /\ mask < Pow2(dot_width * dot_height)
                  /\ \A dx \in 0..(dot_width - 1), dy \in 0..(dot_height - 1) :
                        Bit(mask, bits[dx + 1][dy + 1]) = 1 <=> Occupied(dx, dy)
                  /\ (\A dx \in 0..(dot_width - 1), dy \in 0..(dot_height - 1) :
                         ~Occupied(dx, dy))
                     => /\ lines[cy][cx] = braille_base
                        /\ \A colors \in Palettes :
                              render_colors(grid, width, height, colors)[cy][cx] = White

\* the rendering of a pile with one grain in the fourth row of a left
\* column: one cell shows bit 6 alone, another cell is blank
C21_Witness ==
    /\ op.name = "render"
    /\ op.pre.count = 1
    /\ \E cy \in DOMAIN op.arg : \E cx \in DOMAIN op.arg[cy] :
          op.arg[cy][cx] = braille_base + Pow2(6)
    /\ \E cy \in DOMAIN op.arg : \E cx \in DOMAIN op.arg[cy] :
          op.arg[cy][cx] = braille_base

\* ------------------------------------------------------------------------
\* The arithmetic of resize_grid on its own (SpecWindow): kept_window on a
\* pair of axis lengths, the band sizes on the dimensions of a new grid
\* ------------------------------------------------------------------------
\* character-cell counts around every step of new_cell / 40
BandCells == (0..3) \cup {40 * k + d : k \in 1..MaxBandSteps, d \in {-1, 0, 1}}

\* widths and heights of a new grid, in sub-cells
BandWidths == {c * dot_width + e : c \in BandCells, e \in 0..(dot_width - 1)}
BandHeights == {c * dot_height + e : c \in BandCells, e \in 0..(dot_height - 1)}

InitWindow ==
    /\ grid = EmptyGrid(0, 0)
    /\ width = 0
    /\ height = 0
    /\ frame_count = 0
    /\ grain_count = 0
    /\ status = "ok"
    /\ \/ \E old_len \in 0..MaxLen, new_len \in 0..MaxLen :
            op = [name |-> "lengths", arg |-> <<old_len, new_len>>, pre |-> <<>>]
       \/ \E new_w \in BandWidths, new_h \in BandHeights :
            op = [name |-> "dims", arg |-> <<new_w, new_h>>, pre |-> <<>>]

\* kept_window(old_len, new_len)
KeptWindow ==
    /\ op.name = "lengths"
    /\ op' = [name |-> "kept_window", arg |-> kept_window(op.arg[1], op.arg[2]),
              pre |-> op.arg]
    /\ UNCHANGED <<grid, width, height, frame_count, grain_count, status>>

\* the band sizes resize_grid computes for a new grid of new_w by new_h
BandSizes ==
    /\ op.name = "dims"
    /\ op' = [name |-> "band", arg |-> BandPx(op.arg[1], op.arg[2], dot_width, dot_height),
              pre |-> op.arg]
    /\ UNCHANGED <<grid, width, height, frame_count, grain_count, status>>

NextWindow == KeptWindow \/ BandSizes

SpecWindow == InitWindow /\ [][NextWindow]_vars

\* C22: kept_window(old, new) is ((old-new)/2, (old-new)/2 + new, 0) when
\* new < old, (0, old, (new-old)/2) when new > old and (0, old, 0) when they
\* are equal; the window is min(old, new) long, the source range lies in the
\* old axis and the shifted destination range in the new one.
C22_KeptWindow ==
    op.name = "kept_window" =>
        LET old == op.pre[1]
            new == op.pre[2]
            src_start == op.arg[1]
            src_end == op.arg[2]
            dest_offset == op.arg[3]
        IN  /\ new < old =>
                op.arg = <<(old - new) \div 2, (old - new) \div 2 + new, 0>>
            /\ new > old => op.arg = <<0, old, (new - old) \div 2>>
            /\ new = old => op.arg = <<0, old, 0>>
            /\ src_end - src_start = Min(old, new)
            /\ 0 <= src_start /\ src_start <= src_end /\ src_end <= old
            /\ 0 <= dest_offset /\ dest_offset + (src_end - src_start) <= new

\* an axis shrunk by an odd number of cells, and one grown by an odd number
C22_Witness ==
    /\ op.name = "kept_window"
    /\ \/ op.pre = <<5, 2>> /\ op.arg = <<1, 3, 0>>
       \/ op.pre = <<2, 5>> /\ op.arg = <<0, 2, 1>>

\* C25: the band width is clamp(new_cell_w / 40, 2, 6) character cells and
\* the band height clamp(new_cell_h / 40, 1, 3), each multiplied by dot_width
\* or dot_height to give sub-cells and cut to the width or height of the new
\* grid.
C25_BandSizes ==
    op.name = "band" =>
        LET new_w == op.pre[1]
            new_h == op.pre[2]
            Clamp(v, lo, hi) == IF v < lo THEN lo ELSE IF v > hi THEN hi ELSE v
            band_w == Clamp((new_w \div dot_width) \div 40, 2, 6)
            band_h == Clamp((new_h \div dot_height) \div 40, 1, 3)
            Cut(v, limit) == IF v > limit THEN limit ELSE v
        IN  /\ op.arg[1] = Cut(band_w * dot_width, new_w)
            /\ op.arg[2] = Cut(band_h * dot_height, new_h)
            /\ op.arg[1] <= new_w
            /\ op.arg[2] <= new_h

\* the bands of a new grid of 120 by 120 character cells: 3 cells wide and 3
\* cells high, between the clamps
C25_Witness ==
    /\ op.name = "band"
    /\ op.pre = <<120 * dot_width, 120 * dot_height>>
    /\ op.arg = <<3 * dot_width, 3 * dot_height>>

\* ------------------------------------------------------------------------
\* new(w, h) and one resize after it (SpecFirst)
\* ------------------------------------------------------------------------
\* the viewports <<w, h>> new and resize are called with
FirstViewports ==
    {v \in (0..MaxFirst) \X (0..MaxFirst) : v[1] * v[2] <= MaxFirstCells}

\* the struct literal of SandEngine::new(w, h): no grid yet, the size fields
\* hold the arguments
InitFirst ==
    \E w \in 0..MaxFirst, h \in 0..MaxFirst :
        /\ <<w, h>> \in FirstViewports
        /\ grid = <<>>
        /\ width = w
        /\ height = h
        /\ frame_count = 0
        /\ grain_count = 0
        /\ status = "ok"
        /\ op = [name |-> "literal", arg |-> <<w, h>>, pre |-> <<>>]

\* se.resize(width, height), the last statement of new
FirstNew ==
    /\ op.name = "literal"
    /\ ResizeStep(op.arg[1], op.arg[2])
    /\ op' = DidWith("new", op.arg)

\* resize(w, h) on the engine new returned
FirstResize(w, h) ==
    /\ op.name = "new"
    /\ ResizeStep(w, h)
    /\ op' = DidWith("resize", <<w, h>>)

NextFirst ==
    \/ FirstNew
    \/ \E v \in FirstViewports : FirstResize(v[1], v[2])

SpecFirst == InitFirst /\ [][NextFirst]_vars

\* C31: when the engine has no grid yet or its grid has a zero dimension,
\* resize(w, h), and so new(w, h), leaves an all-empty grid of h * dot_height
\* rows of w * dot_width columns and grain_count 0; neither redistribution
\* nor gravity runs, so the call ends normally for a zero h as well.
C31_FirstSizingAllocates ==
    (/\ op.name \in {"new", "resize"}
     /\ (op.pre.h = 0 \/ op.pre.w = 0))
    => LET w == op.arg[1]
           h == op.arg[2]
       IN  /\ status = "ok"
           /\ DOMAIN grid = 0..(h * dot_height - 1)
           /\ \A y \in DOMAIN grid :
                 /\ DOMAIN grid[y] = 0..(w * dot_width - 1)
                 /\ \A x \in DOMAIN grid[y] : grid[y][x] = None
           /\ grain_count = 0

\* new(0, 1) built a grid of four rows without columns; resize(2, 1) then
\* allocated four rows of four columns
C31_Witness ==
    /\ op.name = "resize"
    /\ op.pre.h = dot_height /\ op.pre.w = 0
    /\ op.arg = <<2, 1>>
    /\ Rows(grid) = dot_height /\ Cols(grid) = 2 * dot_width

\* ------------------------------------------------------------------------
\* The colours of one rendering (SpecRender)
\* ------------------------------------------------------------------------
\* the grids of a viewport of w by h character cells with at most
\* MaxRenderGrains grains of the categories 0, 1 and 2
Paintings(w, h) ==
    LET cells == (0..(h * dot_height - 1)) \X (0..(w * dot_width - 1))
        Painted(occupied) ==
            {[y \in 0..(h * dot_height - 1) |->
                [x \in 0..(w * dot_width - 1) |->
                    IF <<y, x>> \in occupied THEN tag[<<y, x>>] ELSE None]] :
             tag \in [occupied -> AllIds]}
    IN  UNION {Painted(occupied) :
                 occupied \in {c \in SUBSET cells : Cardinality(c) <= MaxRenderGrains}}

InitRender ==
    \E painting \in Paintings(RenderViewport[1], RenderViewport[2]) :
        /\ grid = painting
        /\ width = RenderViewport[1] * dot_width
        /\ height = RenderViewport[2] * dot_height
        /\ frame_count = 0
        /\ grain_count = CountGrains(painting)
        /\ status = "ok"
        /\ op = Did("painting")

\* render(&categories): the colours of the spans it returns
RenderColors(colors) ==
    /\ op.name = "painting"
    /\ op' = DidWith("render", [colors |-> colors,
                                lines |-> render_colors(grid, width, height, colors)])
    /\ UNCHANGED <<grid, width, height, frame_count, grain_count, status>>

NextRender == \E colors \in Palettes : RenderColors(colors)

SpecRender == InitRender /\ [][NextRender]_vars

\* the categories of the occupied sub-cells of the rendered cell (cx, cy)
TagsOfCell(cx, cy) ==
    {grid[p[1]][p[2]] :
        p \in {c \in Cells(grid) :
                 /\ c[1] \div dot_height = cy
                 /\ c[2] \div dot_width = cx
                 /\ grid[c[1]][c[2]] /= None}}

\* C34: a rendered cell whose occupied sub-cells are all of category 0, or
\* all of ids missing from the category list, is pure white, Rgb(255, 255,
\* 255), whatever colours the list holds; a cell whose occupied sub-cells are
\* all of one listed category (other than 0) with an RGB colour has exactly
\* that colour.
C34_WhiteAndSingleCategory ==
    op.name = "render" =>
        LET colors == op.arg.colors
            lines == op.arg.lines
        IN  \A cy \in DOMAIN lines : \A cx \in DOMAIN lines[cy] :
              LET tags == TagsOfCell(cx, cy)
              IN  /\ (tags /= {} /\ (tags = {0} \/ tags \cap DOMAIN colors = {}))
                        => lines[cy][cx] = [kind |-> "Rgb", rgb |-> <<255, 255, 255>>,
                                            parts |-> {}]
                  /\ \A k \in DOMAIN colors :
                        (tags = {k} /\ k /= 0 /\ colors[k].kind = "Rgb")
                            => lines[cy][cx] = colors[k]

\* a cell of three grains of category 1 rendered with category 1 listed in
\* orange
C34_Witness ==
    /\ op.name = "render"
    /\ grain_count = 3
    /\ TagsOfCell(0, 0) = {1}
    /\ 1 \in DOMAIN op.arg.colors
    /\ op.arg.colors[1].kind = "Rgb"
    /\ op.arg.lines[0][0] = op.arg.colors[1]

\* ------------------------------------------------------------------------
\* One settling pass followed grain by grain (SpecFall)
\* ------------------------------------------------------------------------
\* g with every grain replaced by the number of the cell it lies in
Labelled(g) ==
    [y \in DOMAIN g |->
        [x \in DOMAIN g[y] |-> IF g[y][x] = None THEN None ELSE y * Cols(g) + x]]

\* the grid whose grains are those of g moved to where their numbers are in
\* labels
Tagged(labels, g) ==
    [y \in DOMAIN labels |->
        [x \in DOMAIN labels[y] |->
            IF labels[y][x] = None
            THEN None
            ELSE g[labels[y][x] \div Cols(g)][labels[y][x] % Cols(g)]]]

\* the runs of the two loops of apply_gravity from the scan step i on: the
\* grid each leaves and, for every occupied cell the loops came to, the grain
\* found there, whether the cell below it was occupied and whether it moved
RECURSIVE GravityRuns(_, _, _, _)
GravityRuns(S, scan, i, w) ==
    IF i > Len(scan)
    THEN S
    ELSE LET y == scan[i][1]
             x == scan[i][2]
             Seen(r, g2) ==
                 IF r.g[y][x] = None
                 THEN r.log
                 ELSE Append(r.log, [grain |-> r.g[y][x], at |-> <<y, x>>,
                                     below |-> r.g[y + 1][x] /= None,
                                     moved |-> g2 /= r.g])
         IN  GravityRuns(UNION {{[g |-> g2, log |-> Seen(r, g2)] :
                                    g2 \in GravityStep(r.g, y, x, w)} : r \in S},
                         scan, i + 1, w)

\* the grids of a viewport of w by h character cells with at most n grains,
\* tagged 0 and 1 in a checkerboard
HeapsUpTo(w, h, n) ==
    LET cells == (0..(h * dot_height - 1)) \X (0..(w * dot_width - 1))
    IN  {[y \in 0..(h * dot_height - 1) |->
            [x \in 0..(w * dot_width - 1) |->
                IF <<y, x>> \in occupied THEN (x + y) % 2 ELSE None]] :
         occupied \in {c \in SUBSET cells : Cardinality(c) <= n}}

Heaps(w, h) == HeapsUpTo(w, h, MaxFallGrains)

\* an engine that holds a heap and has been updated once
InitFall ==
    \E heap \in Heaps(FallViewport[1], FallViewport[2]) :
        /\ grid = heap
        /\ width = FallViewport[1] * dot_width
        /\ height = FallViewport[2] * dot_height
        /\ frame_count = 1
        /\ grain_count = CountGrains(heap)
        /\ status = "ok"
        /\ op = Did("heap")

\* update() at an odd frame count: the settling pass, with the run it took
FallUpdate ==
    /\ op.name = "heap"
    /\ UpdateStep
    /\ \E run \in GravityRuns({[g |-> Labelled(grid), log |-> <<>>]},
                             GravityScan(Cols(grid), Rows(grid)), 1, Cols(grid)) :
          /\ grid' = Tagged(run.g, grid)
          /\ op' = DidWith("update", run)

NextFall == FallUpdate

SpecFall == InitFall /\ [][NextFall]_vars

\* the cell <<row, column>> the grain numbered k of the pass just made
\* started from, and the cell it ended in
StartOf(k) == <<k \div op.pre.w, k % op.pre.w>>
EndOf(k) == CHOOSE c \in Cells(op.arg.g) : op.arg.g[c[1]][c[2]] = k

\* the grains of the grid the pass started from, by number
GrainsBefore ==
    {p[1] * op.pre.w + p[2] : p \in {c \in Cells(op.pre.rows) : op.pre.rows[c[1]][c[2]] /= None}}

\* C29: in one settling pass every grain moves at most once: it ends in its
\* original cell or one row lower, in the same or an adjacent column; it
\* changes column only if the cell right below it was occupied when it was
\* processed; it never moves up, and a grain of the last row does not move.
C29_GrainMovesAtMostOnce ==
    op.name = "update" =>
        \A k \in GrainsBefore :
            LET p == StartOf(k)
                seen == SelectSeq(op.arg.log, LAMBDA e : e.grain = k)
                moves == SelectSeq(op.arg.log, LAMBDA e : e.grain = k /\ e.moved)
            IN  /\ Cardinality({c \in Cells(op.arg.g) : op.arg.g[c[1]][c[2]] = k}) = 1
                /\ grid[EndOf(k)[1]][EndOf(k)[2]] = op.pre.rows[p[1]][p[2]]
                /\ Len(moves) <= 1
                /\ Len(moves) = 0 <=> EndOf(k) = p
                /\ \/ EndOf(k) = p
                   \/ /\ EndOf(k)[1] = p[1] + 1
                      /\ EndOf(k)[2] \in {p[2] - 1, p[2], p[2] + 1}
                /\ EndOf(k)[2] /= p[2] =>
                      /\ Len(seen) = 1
                      /\ seen[1].at = p
                      /\ seen[1].below
                /\ EndOf(k)[1] >= p[1]
                /\ p[1] = op.pre.h - 1 => EndOf(k) = p

\* a pass in which one grain fell straight down, one slid to an adjacent
\* column and one lay in the last row
C29_Witness ==
    /\ op.name = "update"
    /\ \E k \in GrainsBefore : EndOf(k) = <<StartOf(k)[1] + 1, StartOf(k)[2]>>
    /\ \E k \in GrainsBefore :
          EndOf(k)[1] = StartOf(k)[1] + 1 /\ EndOf(k)[2] /= StartOf(k)[2]
    /\ \E k \in GrainsBefore :
          EndOf(k) = StartOf(k) /\ StartOf(k)[1] = op.pre.h - 1

\* the stacks <<x, a, b>> of the grid the pass started from: the rows a..b of
\* column x all hold a grain and the cell below row b is empty
Stacks ==
    {t \in (0..(op.pre.w - 1)) \X (0..(op.pre.h - 1)) \X (0..(op.pre.h - 1)) :
        /\ t[2] <= t[3]
        /\ t[3] + 1 < op.pre.h
        /\ \A r \in t[2]..t[3] : op.pre.rows[r][t[1]] /= None
        /\ op.pre.rows[t[3] + 1][t[1]] = None}

\* every grain of the stack t is one row lower in its column after the pass
MovedDown(t) ==
    \A r \in t[2]..t[3] : op.arg.g[r + 1][t[1]] = r * op.pre.w + t[1]

\* the column left of the stack t holds no grain in the rows of the stack
LeftClear(t) ==
    t[1] = 0 \/ \A r \in t[2]..t[3] : op.pre.rows[r][t[1] - 1] = None

\* C30: a contiguous vertical stack of grains in one column with an empty
\* cell right below its lowest grain moves down as a whole in one settling
\* pass: every grain of the stack ends one row lower in the same column.
C30_StackMovesDown ==
    op.name = "update" => \A t \in Stacks : MovedDown(t)

\* C30, amended: such a stack moves down as a whole in one settling pass when
\* the column to its left holds no grain in the rows of the stack (a grain
\* there with an occupied cell below it is processed first and can slide
\* into the cell the stack would fall into).
C30_StackMovesDownLeftClear ==
    op.name = "update" => \A t \in Stacks : LeftClear(t) => MovedDown(t)

\* a stack of two grains with a grain to its right and none to its left,
\* one row lower after the pass
C30_Witness ==
    /\ op.name = "update"
    /\ \E t \in Stacks :
          /\ t[2] < t[3]
          /\ LeftClear(t)
          /\ t[1] + 1 < op.pre.w
          /\ op.pre.rows[t[3]][t[1] + 1] /= None
          /\ op.pre.rows[t[3] + 1][t[1] + 1] /= None
          /\ MovedDown(t)

\* ------------------------------------------------------------------------
\* update() called again and again on a heap (SpecSettle)
\* ------------------------------------------------------------------------
InitSettle ==
    \E heap \in HeapsUpTo(FallViewport[1], FallViewport[2], MaxSettleGrains) :
        /\ grid = heap
        /\ width = FallViewport[1] * dot_width
        /\ height = FallViewport[2] * dot_height
        /\ frame_count = 0
        /\ grain_count = CountGrains(heap)
        /\ status = "ok"
        /\ op = Did("heap")

\* one call of update()
SettleUpdate ==
    /\ UpdateStep
    /\ op' = DidWith("update", <<>>)

\* a call of update() whose settling pass moves a grain
SettlingPass == SettleUpdate /\ grid' /= grid

NextSettle == SettleUpdate

\* update() is called again and again, and each of the two random directions
\* comes up again and again for a grain that can slide: a pass that moves a
\* grain is taken if it is possible again and again
SpecSettle ==
    /\ InitSettle
    /\ [][NextSettle]_vars
    /\ WF_vars(SettleUpdate)
    /\ SF_vars(SettlingPass)

\* the sum of the row indices of the grains of g
RECURSIVE RowSumOf(_, _)
RowSumOf(g, cells) ==
    IF cells = {}
    THEN 0
    ELSE LET c == CHOOSE c \in cells : TRUE
         IN  c[1] + RowSumOf(g, cells \ {c})

RowSum(g) == RowSumOf(g, {c \in Cells(g) : g[c[1]][c[2]] /= None})

\* every grain of g above the last row has the cell below it and the
\* diagonal cells below it that are inside the grid occupied
SettledShape(g) ==
    \A c \in Cells(g) :
        (g[c[1]][c[2]] /= None /\ c[1] + 1 < Rows(g)) =>
            \A dx \in {-1, 0, 1} :
                (c[2] + dx >= 0 /\ c[2] + dx < Cols(g)) => g[c[1] + 1][c[2] + dx] /= None

\* C36: with update() alone called again and again, and each random
\* direction coming up again and again, the grid reaches a settled grid that
\* no later pass changes: in a pass the sum of the grains' row indices never
\* falls and rises whenever a grain moves, it is bounded by the number of
\* grains times the last row index, and in the settled grid every grain
\* above the last row has the cell below it and both diagonal cells below it
\* that are inside the grid occupied.
C36_Settles ==
    /\ [][/\ RowSum(grid') >= RowSum(grid)
          /\ grid' /= grid => RowSum(grid') > RowSum(grid)
          /\ SettledShape(grid) => grid' = grid]_vars
    /\ [](RowSum(grid) <= grain_count * (Rows(grid) - 1))
    /\ <>[]SettledShape(grid)

\* a settled grid reached by a pass in which a grain slid to the next column
C36_Witness ==
    /\ op.name = "update"
    /\ op.pre.rows /= grid
    /\ ~SettledShape(op.pre.rows)
    /\ SettledShape(grid)
    /\ grain_count = MaxSettleGrains
    /\ \E x \in 0..(Cols(grid) - 1) :
          Cardinality({y \in DOMAIN grid : grid[y][x] /= None})
             /= Cardinality({y \in DOMAIN grid : op.pre.rows[y][x] /= None})

\* ------------------------------------------------------------------------
\* One restore into an engine (SpecRestore)
\* ------------------------------------------------------------------------
\* grid sizes a snapshot names: those snapshot_state finds in an engine
SnapDims == {<<v[1] * dot_width, v[2] * dot_height>> : v \in Viewports}

\* positions of the grains of a gw by gh snapshot: its first and last cell,
\* and one position beyond each axis
SnapPositions(gw, gh) ==
    (IF gw > 0 /\ gh > 0 THEN {<<0, 0>>, <<gw - 1, gh - 1>>} ELSE {})
        \cup {<<gw, 0>>, <<0, gh>>}

\* SandStateGrain values of such a snapshot; 1 is a category, 2 is unknown
SnapGrains(gw, gh) ==
    {[x |-> p[1], y |-> p[2], category_id |-> c] :
        p \in SnapPositions(gw, gh), c \in {1, 2}}

\* sequences over S of length at most n
RECURSIVE SeqsUpTo(_, _)
SeqsUpTo(S, n) ==
    IF n = 0
    THEN {<<>>}
    ELSE LET shorter == SeqsUpTo(S, n - 1)
         IN  shorter \cup {Append(q, e) : q \in shorter, e \in S}

\* the SandState values a sand_state.json can hold
SnapStates ==
    UNION {
        {[version |-> ver, grid_width |-> d[1], grid_height |-> d[2], grains |-> gs] :
            ver \in {VERSION, VERSION + 1},
            gs \in SeqsUpTo(SnapGrains(d[1], d[2]), MaxSnapGrains)} :
        d \in SnapDims}

\* an engine just built for a viewport, empty or after one spawn into
\* column 0
InitRestore ==
    \E v \in (0..MaxLive) \X (0..MaxLive), spawned \in BOOLEAN :
        LET fresh == EmptyGrid(v[1] * dot_width, v[2] * dot_height)
        IN  /\ spawned => capacity(fresh) > 0
            /\ grid = IF spawned THEN SetCell(fresh, 0, 0, 1) ELSE fresh
            /\ width = v[1] * dot_width
            /\ height = v[2] * dot_height
            /\ frame_count = 0
            /\ grain_count = IF spawned THEN 1 ELSE 0
            /\ status = "ok"
            /\ op = Did("engine")

\* SandEngine::restore_state called with a state and the valid ids
RestoreState(state, valid_category_ids) ==
    /\ op.name = "engine"
    /\ RestoreStep(state, valid_category_ids)
    /\ op' = DidWith("restore_state",
                     [state |-> state, valid |-> valid_category_ids,
                      loaded |-> <<state>>])

\* restore_sand_state: load the file, return if there is no state, else
\* restore_state with the ids of the categories
RestoreSandState(file, valid_category_ids) ==
    /\ op.name = "engine"
    /\ LET loaded == load_sand_state(file)
       IN  /\ IF loaded = <<>>
              THEN /\ status = "ok"
                   /\ UNCHANGED <<grid, width, height, frame_count, grain_count, status>>
              ELSE RestoreStep(loaded[1], valid_category_ids)
           /\ op' = DidWith("restore_sand_state",
                            [state |-> file.state, valid |-> valid_category_ids,
                             loaded |-> loaded])

NextRestore ==
    \/ /\ op.name = "engine"
       /\ \E state \in SnapStates, valid \in ValidSets : RestoreState(state, valid)
    \/ /\ op.name = "engine"
       /\ \E state \in SnapStates, valid \in ValidSets :
             RestoreSandState(FileOf(state), valid)
    \/ /\ op.name = "engine"
       /\ \E file \in {NoFile, BadFile}, valid \in ValidSets :
             RestoreSandState(file, valid)

SpecRestore == InitRestore /\ [][NextRestore]_vars

\* grain i of the restored snapshot lies inside the snapshot's grid
InRange(i) ==
    LET state == op.arg.state
    IN  state.grains[i].x < state.grid_width /\ state.grains[i].y < state.grid_height

\* no later grain of the snapshot has the position of grain i
LastAtPosition(i) ==
    LET grains == op.arg.state.grains
    IN  \A j \in (i + 1)..Len(grains) :
            grains[j].x /= grains[i].x \/ grains[j].y /= grains[i].y

\* C9 as stated: after a restore every grain of the snapshot is in the grid at
\* its position, tagged 0 if its id is not in valid_category_ids and with its
\* own id otherwise, and grain_count counts it.
C9_EveryGrainPlaced ==
    (op.name = "restore_state" /\ op.arg.state.version = VERSION) =>
        LET grains == op.arg.state.grains
        IN  /\ \A i \in 1..Len(grains) :
                 /\ grains[i].y < Rows(grid)
                 /\ grains[i].x < Cols(grid)
                 /\ grid[grains[i].y][grains[i].x] =
                       IF grains[i].category_id \in op.arg.valid
                       THEN grains[i].category_id
                       ELSE 0
            /\ grain_count = CountGrains(grid)
            /\ grain_count >= Cardinality({<<grains[i].x, grains[i].y>> : i \in 1..Len(grains)})

\* C9, amended: after a restore of a snapshot of the current version and of
\* non-zero size into an engine whose grid has the snapshot's size or no
\* capacity, every grain of the snapshot that is inside the snapshot's grid
\* and last at its position is in the grid at that position, tagged 0 if its
\* id is not in valid_category_ids and with its own id otherwise, and
\* grain_count is the number of positions such grains have.
C9_Sanitized ==
    (/\ op.name = "restore_state"
     /\ op.arg.state.version = VERSION
     /\ op.arg.state.grid_width > 0
     /\ op.arg.state.grid_height > 0
     /\ \/ op.pre.w = 0
        \/ op.pre.h = 0
        \/ (op.pre.w = op.arg.state.grid_width /\ op.pre.h = op.arg.state.grid_height))
    => LET grains == op.arg.state.grains
           placed == {i \in 1..Len(grains) : InRange(i) /\ LastAtPosition(i)}
       IN  /\ \A i \in placed :
                grid[grains[i].y][grains[i].x] =
                    IF grains[i].category_id \in op.arg.valid
                    THEN grains[i].category_id
                    ELSE 0
           /\ grain_count = Cardinality(placed)
           /\ grain_count = CountGrains(grid)

\* a restore into a grid of the snapshot's size that placed a grain of a valid
\* id with its tag and a grain of an unknown id as category 0
C9_Witness ==
    /\ op.name = "restore_state"
    /\ op.arg.state.version = VERSION
    /\ op.pre.w = op.arg.state.grid_width /\ op.pre.h = op.arg.state.grid_height
    /\ op.pre.w > 0 /\ op.pre.h > 0
    /\ Len(op.arg.state.grains) = 2
    /\ InRange(1) /\ InRange(2) /\ LastAtPosition(1)
    /\ op.arg.state.grains[1].category_id = 2
    /\ op.arg.state.grains[2].category_id = 1
    /\ op.arg.valid = {0, 1}
    /\ grid[op.arg.state.grains[1].y][op.arg.state.grains[1].x] = 0
    /\ grid[op.arg.state.grains[2].y][op.arg.state.grains[2].x] = 1
    /\ grain_count = 2

\* C10: restore_state with a snapshot of another version leaves the grid,
\* width, height, frame_count and grain_count as they were, and
\* load_sand_state returns no state for a file holding such a snapshot.
C10_VersionMismatchIgnored ==
    /\ (op.name = "restore_state" /\ op.arg.state.version /= VERSION)
          => /\ grid = op.pre.rows
             /\ grain_count = op.pre.count
             /\ <<width, height, frame_count>> = op.pre.fields
             /\ status = "ok"
    /\ (op.name = "restore_sand_state" /\ op.arg.state.version /= VERSION)
          => /\ op.arg.loaded = <<>>
             /\ grid = op.pre.rows
             /\ grain_count = op.pre.count
             /\ <<width, height, frame_count>> = op.pre.fields

\* restore_state was called on an engine holding a grain with a snapshot of
\* another version that lists grains for a grid of the engine's size
C10_Witness ==
    /\ op.name = "restore_state"
    /\ op.arg.state.version = VERSION + 1
    /\ op.pre.count = 1
    /\ op.arg.state.grid_width = op.pre.w /\ op.arg.state.grid_height = op.pre.h
    /\ Len(op.arg.state.grains) = 2
    /\ InRange(1) /\ InRange(2)
    /\ grain_count = 1

\* the positions inside the snapshot's grid that the restored snapshot lists
InRangePositions ==
    LET grains == op.arg.state.grains
    IN  {<<grains[i].x, grains[i].y>> : i \in {j \in 1..Len(grains) : InRange(j)}}

\* C11: a restore into an engine whose grid is larger than the snapshot's on
\* both axes loses no grain: grain_count is the number of distinct positions
\* inside the snapshot's grid that the snapshot lists.
C11_RestoreIntoLargerKeepsAll ==
    (/\ op.name = "restore_state"
     /\ op.arg.state.version = VERSION
     /\ op.arg.state.grid_width > 0
     /\ op.arg.state.grid_height > 0
     /\ op.pre.w > op.arg.state.grid_width
     /\ op.pre.h > op.arg.state.grid_height)
    => /\ grain_count = Cardinality(InRangePositions)
       /\ CountGrains(grid) = Cardinality(InRangePositions)
       /\ Cols(grid) = op.pre.w
       /\ Rows(grid) = op.pre.h

\* a snapshot with grains in its first and its last cell restored into a
\* grid that is wider and taller
C11_Witness ==
    /\ op.name = "restore_state"
    /\ op.arg.state.version = VERSION
    /\ op.arg.state.grid_width > 0 /\ op.arg.state.grid_height > 0
    /\ op.pre.w > op.arg.state.grid_width
    /\ op.pre.h > op.arg.state.grid_height
    /\ InRangePositions = {<<0, 0>>, <<op.arg.state.grid_width - 1,
                                       op.arg.state.grid_height - 1>>}
    /\ grain_count = 2

\* C12: a restore of a snapshot that lists a grain with x >= grid_width or
\* y >= grid_height returns without a fault, the grain is nowhere in the
\* grid, and every grain inside the snapshot's grid is restored: into a grid
\* of the snapshot's size or of no capacity each one that is last at its
\* position is in its cell, and the occupied cells are exactly their
\* positions.
C12_OutOfRangeSkipped ==
    (/\ op.name = "restore_state"
     /\ op.arg.state.version = VERSION
     /\ op.arg.state.grid_width > 0
     /\ op.arg.state.grid_height > 0
     /\ \E i \in 1..Len(op.arg.state.grains) : ~InRange(i))
    => /\ status = "ok"
       /\ CountGrains(grid) <= Cardinality(InRangePositions)
       /\ grain_count = CountGrains(grid)
       /\ (\/ op.pre.w = 0
           \/ op.pre.h = 0
           \/ (op.pre.w = op.arg.state.grid_width /\ op.pre.h = op.arg.state.grid_height))
          => LET grains == op.arg.state.grains
             IN  /\ Cols(grid) = op.arg.state.grid_width
                 /\ Rows(grid) = op.arg.state.grid_height
                 /\ {<<p[2], p[1]>> : p \in {q \in Cells(grid) : grid[q[1]][q[2]] /= None}}
                       = InRangePositions
                 /\ \A i \in 1..Len(grains) :
                       (InRange(i) /\ LastAtPosition(i)) =>
                           grid[grains[i].y][grains[i].x] =
                               normalized_id(grains[i].category_id, op.arg.valid)

\* a snapshot listing a grain beyond its width and a grain in its last cell,
\* restored into a grid of its size: only the second is in the grid
C12_Witness ==
    /\ op.name = "restore_state"
    /\ op.arg.state.version = VERSION
    /\ op.pre.w = op.arg.state.grid_width /\ op.pre.h = op.arg.state.grid_height
    /\ op.pre.w > 0 /\ op.pre.h > 0
    /\ Len(op.arg.state.grains) = 2
    /\ op.arg.state.grains[1].x = op.arg.state.grid_width
    /\ InRange(2)
    /\ op.arg.state.grains[2].x = op.arg.state.grid_width - 1
    /\ grain_count = 1
    /\ grid[op.arg.state.grains[2].y][op.arg.state.grains[2].x] /= None

\* C32: a restore_state of a snapshot of the current version replaces the
\* grid wholesale: no grain of the live engine survives, and the grid it
\* leaves depends on the snapshot, valid_category_ids and the dimensions of
\* the live grid only - it is the grid the same call leaves in an engine of
\* these dimensions holding no grain.
C32_RestoreReplacesGrid ==
    (op.name = "restore_state" /\ op.arg.state.version = VERSION) =>
        LET state == op.arg.state
            InSnapshot(p) ==
                \E i \in 1..Len(state.grains) :
                    /\ InRange(i)
                    /\ state.grains[i].x = p[2] /\ state.grains[i].y = p[1]
        IN  /\ grid = restore_state(EmptyGrid(op.pre.w, op.pre.h), state, op.arg.valid)
            /\ grain_count = CountGrains(grid)
            /\ (\A i \in 1..Len(state.grains) : ~InRange(i)) => CountGrains(grid) = 0
            /\ (op.pre.w = state.grid_width /\ op.pre.h = state.grid_height)
                  => \A p \in Cells(grid) : grid[p[1]][p[2]] /= None => InSnapshot(p)

\* a restore into an engine of the snapshot's size that held a grain in a
\* cell the snapshot leaves empty: the grain is gone, the snapshot's is there
C32_Witness ==
    /\ op.name = "restore_state"
    /\ op.arg.state.version = VERSION
    /\ op.pre.w = op.arg.state.grid_width /\ op.pre.h = op.arg.state.grid_height
    /\ op.pre.count = 1
    /\ op.pre.rows[0][0] /= None
    /\ grid[0][0] = None
    /\ grain_count = 1

\* grains i < j of the restored snapshot lie at one position inside the
\* snapshot's grid
SamePosition(i, j) ==
    LET grains == op.arg.state.grains
    IN  /\ i < j
        /\ InRange(i)
        /\ InRange(j)
        /\ grains[i].x = grains[j].x
        /\ grains[i].y = grains[j].y

\* C37: when a snapshot lists several grains at one position inside its
\* grid, the restore keeps one grain for that position, and grain_count
\* counts it once; into a grid of the snapshot's size the grain is in that
\* cell with the sanitized category of the last of these triples, and
\* grain_count is the number of distinct positions inside the snapshot's
\* grid, which is less than the number of triples.
C37_LastDuplicateWins ==
    (/\ op.name = "restore_state"
     /\ op.arg.state.version = VERSION
     /\ op.arg.state.grid_width > 0
     /\ op.arg.state.grid_height > 0
     /\ \E i, j \in 1..Len(op.arg.state.grains) : SamePosition(i, j))
    => LET grains == op.arg.state.grains
       IN  /\ grain_count = CountGrains(grid)
           /\ grain_count <= Cardinality(InRangePositions)
           /\ grain_count < Len(grains)
           /\ (op.pre.w = op.arg.state.grid_width /\ op.pre.h = op.arg.state.grid_height)
                 => /\ grain_count = Cardinality(InRangePositions)
                    /\ \A i, j \in 1..Len(grains) :
                          (SamePosition(i, j) /\ LastAtPosition(j)) =>
                              grid[grains[j].y][grains[j].x] =
                                  normalized_id(grains[j].category_id, op.arg.valid)

\* a snapshot listing a grain of category 1 and then a grain of an unknown
\* id in the same cell, restored into a grid of its size: one grain, tagged 0
C37_Witness ==
    /\ op.name = "restore_state"
    /\ op.arg.state.version = VERSION
    /\ op.pre.w = op.arg.state.grid_width /\ op.pre.h = op.arg.state.grid_height
    /\ op.pre.w > 0 /\ op.pre.h > 0
    /\ Len(op.arg.state.grains) = 2
    /\ SamePosition(1, 2)
    /\ op.arg.state.grains[1].category_id = 1
    /\ op.arg.state.grains[2].category_id = 2
    /\ op.arg.valid = {0, 1}
    /\ grid[op.arg.state.grains[2].y][op.arg.state.grains[2].x] = 0
    /\ grain_count = 1

\* C38: a restore_state of a snapshot of the current version whose
\* grid_width or grid_height is 0 empties the grid and sets grain_count to
\* 0; the grid keeps its dimensions, also when the snapshot lists grains.
C38_EmptySnapshotClears ==
    (/\ op.name = "restore_state"
     /\ op.arg.state.version = VERSION
     /\ (op.arg.state.grid_width = 0 \/ op.arg.state.grid_height = 0))
    => /\ status = "ok"
       /\ grain_count = 0
       /\ CountGrains(grid) = 0
       /\ grid = EmptyGrid(op.pre.w, op.pre.h)
       /\ Rows(grid) = Rows(op.pre.rows)
       /\ \A y \in DOMAIN grid : DOMAIN grid[y] = DOMAIN op.pre.rows[y]
       /\ <<width, height, frame_count>> = op.pre.fields

\* an engine holding a grain after the restore of a snapshot of no width
\* that lists two grains: the grid has its rows and columns and no grain
C38_Witness ==
    /\ op.name = "restore_state"
    /\ op.arg.state.version = VERSION
    /\ op.arg.state.grid_width = 0
    /\ op.arg.state.grid_height > 0
    /\ Len(op.arg.state.grains) = 2
    /\ op.pre.count = 1
    /\ op.pre.rows[0][0] /= None
    /\ Rows(grid) = op.pre.h
    /\ Cols(grid) = op.pre.w
    /\ grain_count = 0
    /\ grid[0][0] = None

\* ------------------------------------------------------------------------
\* Properties of the engine's life (Spec)
\* ------------------------------------------------------------------------

\* C2: whenever an operation has returned, grain_count is the exact number of
\* occupied cells of the grid.
C2_GrainCountExact == status = "ok" => grain_count = CountGrains(grid)

\* a grid holding two grains, one of them below row 0, with an exact count
C2_Witness ==
    /\ status = "ok"
    /\ grain_count = 2
    /\ CountGrains(grid) = 2
    /\ \E p \in Cells(grid) : p[1] > 0 /\ grid[p[1]][p[2]] /= None

\* C5: an update() step leaves the number of cells of every tag as it was,
\* whatever directions the settling pass draws.
C5_GravityKeepsTags ==
    [][UpdateStep => \A k \in AllIds : CountTag(grid', k) = CountTag(grid, k)]_vars

\* two grains of different tags side by side in the row below the top: the
\* upper one slid off the lower one in a settling pass
C5_Witness ==
    /\ status = "ok"
    /\ frame_count = 0
    /\ Rows(grid) > 1 /\ Cols(grid) > 1
    /\ grid[0][0] = None /\ grid[0][1] = None
    /\ grid[1][0] /= None /\ grid[1][1] /= None
    /\ grid[1][0] /= grid[1][1]

\* C6: on a grid of zero capacity spawn, update and clear return without a
\* fault and leave the grid and grain_count as they were.
C6_ZeroCapacityNoOp ==
    [][ (/\ capacity(grid) = 0
         /\ \/ UpdateStep
            \/ ClearStep
            \/ \E c \in Tags : SpawnStep(c))
        => (status' = "ok" /\ grid' = grid /\ grain_count' = grain_count) ]_vars

\* C7: resize on a populated engine, also to a width or height of 0, returns
\* without a fault and leaves a grid of the requested size and an exact
\* grain_count.
C7_ResizeNeverFaults ==
    [][ (/\ CountGrains(grid) > 0
         /\ \E v \in Viewports : ResizeStep(v[1], v[2]))
        => (/\ status' = "ok"
            /\ Rows(grid') = height'
            /\ \A y \in DOMAIN grid' : Cardinality(DOMAIN grid'[y]) = width'
            /\ grain_count' = CountGrains(grid')) ]_vars

\* C8: restoring the snapshot of the engine into an engine of the same grid
\* dimensions, all its tags being valid, gives back the grid cell for cell and
\* the same grain_count.
C8_RoundTrip ==
    status = "ok" =>
        \A valid \in ValidSets, target \in {grid, EmptyGrid(Cols(grid), Rows(grid))} :
            TagsOf(grid) \subseteq valid =>
                /\ restore_state(target, snapshot_state(grid), valid) = grid
                /\ restore_count(target, 0, snapshot_state(grid), valid) = grain_count

\* a grid holding two grains of different tags
C8_Witness ==
    /\ status = "ok"
    /\ grain_count = 2
    /\ TagsOf(grid) = {0, 1}

\* C14: update() runs a settling pass on every other call: an odd-numbered
\* call since construction leaves the grid as it is, an even-numbered call
\* leaves a result of one settling pass and so moves every grain that has an
\* empty cell below it.
C14_UpdateEveryOtherCall ==
    [][ UpdateStep =>
          IF frame_count % 2 = 0
          THEN grid' = grid /\ status' = "ok"
          ELSE status' = "ok" =>
                  /\ grid' \in apply_gravity(grid)
                  /\ Floating(grid) => grid' /= grid ]_vars

\* after an odd number of update() calls a grain is still in row 0 above an
\* empty cell, where spawn put it: the call did not move it
C14_Witness ==
    /\ status = "ok"
    /\ frame_count = 1
    /\ Rows(grid) > 1 /\ Cols(grid) > 0
    /\ \E x \in DOMAIN grid[0] : grid[0][x] /= None /\ grid[1][x] = None

\* C35: after every public operation, in any sequence, the grid is
\* rectangular and has the dimensions of the size fields: height rows of
\* width columns each, also after restore_state into an engine whose grid
\* has no capacity.
C35_GridMatchesSizeFields ==
    status = "ok" =>
        /\ Rows(grid) = height
        /\ \A y \in DOMAIN grid : Cardinality(DOMAIN grid[y]) = width

====
